---- MODULE Spec2Model ----
(***************************************************************************)
(* Model of the data-viz-showcase analysis scripts.                        *)
(*                                                                         *)
(* Part 1: linear_regression.py, the grid-search line fitter               *)
(*         (get_y, calculate_error, calculate_all_error, find_best_line,   *)
(*          analyze_linear_regression).                                    *)
(* Part 2: insurance_analysis/*.py, the CSV loaders.                       *)
(* Part 3: student_analysis.py, the descriptive statistics.                *)
(* Part 4: ab_test_analysis.py, the chi-square test of an A/B test.        *)
(* Part 5: biodiversity_analysis.py, the chi-square tests of categories.   *)
(* Part 6: familiar_analysis.py, the two-sample t-test of lifespans.       *)
(* Part 7: cipher_tools.py and the cipher endpoints of app.py.             *)
(* Part 8: main.py, the menu loop.                                         *)
(* Part 9: insurance_web.py and the smoker analyses it duplicates.         *)
(* Part 10: medical_system.py, the age distribution.                       *)
(*                                                                         *)
(* Numbers.  The fitter works on Python floats (IEEE-754 binary64) and its *)
(* result depends on their rounding: on the project's own datapoints the   *)
(* four candidates that tie in exact arithmetic do not tie in binary64.    *)
(* A float is therefore modelled exactly, as the record [n, e] standing    *)
(* for the real number                                                     *)
(*                n / D  +  e / (D * 2^P)                                  *)
(* n is the decimal part in thousandths, e the binary rounding error in    *)
(* units of 1/(D*2^P).  Every binary64 value the fitter meets on the       *)
(* inputs below (integer x, y in thousandths, ranges in hundredths) is a   *)
(* multiple of 2^-P, so the representation is exact and FRound is          *)
(* round-to-nearest, ties-to-even, of binary64.                            *)
(***************************************************************************)
EXTENDS Integers, Sequences, FiniteSets, TLC

D == 1000
P == 62

Abs(i) == IF i < 0 THEN -i ELSE i

\* the powers of two up to 2^n, as a tuple
RECURSIVE Pow2Upto(_)
Pow2Upto(n) == IF n = 0 THEN <<1>>
               ELSE LET t == Pow2Upto(n - 1) IN Append(t, 2 * t[n])
Pow2Table == Pow2Upto(30)
Pow2(k) == Pow2Table[k + 1]

\* 2^k modulo 2*D for k up to n, without forming 2^k
RECURSIVE Pow2ModUpto(_)
Pow2ModUpto(n) == IF n = 0 THEN <<1>>
                  ELSE LET t == Pow2ModUpto(n - 1) IN Append(t, (2 * t[n]) % (2 * D))
Pow2ModTable == Pow2ModUpto(P)
Pow2Mod(k) == Pow2ModTable[k + 1]

\* floor(log2 |n/D + e/(D*2^P)|), n # 0: the binary exponent of the value.
\* The magnitude is compared with the powers of two in units of 1/(D*2^10);
\* a value just below its decimal part (error against its sign) counts as
\* one unit less.
RECURSIVE BinadeUp(_, _)
BinadeUp(a2, i) == IF a2 >= D * Pow2(i + 1) THEN BinadeUp(a2, i + 1) ELSE i

RECURSIVE BinadeDown(_, _)
BinadeDown(a2, i) == IF a2 >= D * Pow2(i) THEN i ELSE BinadeDown(a2, i - 1)

Binade(n, e) ==
    LET a2 == IF n > 0 THEN 1024 * n - (IF e < 0 THEN 1 ELSE 0)
                       ELSE -1024 * n - (IF e > 0 THEN 1 ELSE 0)
    IN  (IF a2 >= D * 8192 THEN BinadeUp(a2, 13)
         ELSE IF a2 >= D * 1024 THEN BinadeDown(a2, 12)
         ELSE BinadeDown(a2, 9)) - 10

\* The binary64 nearest to the real n/D + e/(D*2^P) (ties to even): what every
\* float operation of the code returns for its exact result.
FRound(n, e) ==
    IF n = 0 THEN [n |-> 0, e |-> e]
    ELSE LET s    == Binade(n, e) - 52 + P          \* ulp = 2^(s-P)
             p2   == Pow2(s)
             rho  == ((n % (2 * D)) * Pow2Mod(P - s)) % (2 * D)
             qpar == rho \div D
             r    == rho % D
             den  == D * p2
             t    == p2 * r + e
             c0   == t \div den
             rem  == t - c0 * den
             c    == IF 2 * rem > den \/ (2 * rem = den /\ (qpar + c0) % 2 = 1)
                     THEN c0 + 1 ELSE c0
         IN  [n |-> n, e |-> den * c - p2 * r]

\* FRound for floats kept in units of 1/(D*2^p): the binary64 nearest to the
\* real n/D + e/(D*2^p).  A sum or difference of floats that are multiples
\* of 2^-p is a float itself when its last place is below 2^-p.
FRoundAt(n, e, p) ==
    IF n = 0 \/ Binade(n, e) - 52 + p < 0 THEN [n |-> n, e |-> e]
    ELSE LET s    == Binade(n, e) - 52 + p
             p2   == Pow2(s)
             rho  == ((n % (2 * D)) * Pow2Mod(p - s)) % (2 * D)
             qpar == rho \div D
             r    == rho % D
             den  == D * p2
             t    == p2 * r + e
             c0   == t \div den
             rem  == t - c0 * den
             c    == IF 2 * rem > den \/ (2 * rem = den /\ (qpar + c0) % 2 = 1)
                     THEN c0 + 1 ELSE c0
         IN  [n |-> n, e |-> den * c - p2 * r]
FAddAt(a, b, p) == FRoundAt(a.n + b.n, a.e + b.e, p)
FSubAt(a, b, p) == FRoundAt(a.n - b.n, a.e - b.e, p)

\* float(i) for a Python int i
FInt(i) == [n |-> D * i, e |-> 0]
\* the float written as the decimal t/1000 (a whole number is exact)
FLit(t) == IF t % D = 0 THEN [n |-> t, e |-> 0] ELSE FRound(t, 0)
\* k / 10 (true division of two ints)
FDivTen(k) == FRound((D \div 10) * k, 0)
FAdd(a, b) == FRound(a.n + b.n, a.e + b.e)
FSub(a, b) == FRound(a.n - b.n, a.e - b.e)
\* float * int
FMulInt(a, i) == FRound(a.n * i, a.e * i)
FNeg(a) == [n |-> -a.n, e |-> -a.e]
FIsNeg(a) == a.n < 0 \/ (a.n = 0 /\ a.e < 0)
FAbs(a) == IF FIsNeg(a) THEN FNeg(a) ELSE a
\* a < b on the exact values (|e| < 2^P, so the order is lexicographic)
FLt(a, b) == a.n < b.n \/ (a.n = b.n /\ a.e < b.e)

\* float("inf") and the comparison  error < smallest_error
Inf == [inf |-> TRUE, n |-> 0, e |-> 0]
Fin(a) == [inf |-> FALSE, n |-> a.n, e |-> a.e]
LtInf(a, s) == s.inf \/ FLt(a, s)


(***************************************************************************)
(* linear_regression.py                                                    *)
(* A point is <<x, y>>: x a Python int, y a decimal given in thousandths.  *)
(* A range is <<lower, upper>> in hundredths, step is in hundredths.       *)
(***************************************************************************)
VARIABLES
    points,          \* the caller's list of points
    m_range, b_range, step,
    pc,              \* "call", "loop", "return", "done"
    possible_ms, possible_bs,   \* <<first, last>> of the range() behind each list
    m_i, b_i,        \* the range() integers of the two for loops (m = m_i/10)
    smallest_error, best_m, best_b,   \* find_best_line's locals
    result,          \* what find_best_line returned
    calls,           \* number of calls of find_best_line started
    first_call,      \* arguments and result of the first completed call
    r_squared        \* analyze_linear_regression's r_squared, in thousandths

VARIABLES
    csv,             \* the records of insurance.csv, in file order
    ages, sexes, bmis, num_children, smoker_statuses, regions, insurance_charges,
                     \* the module-level lists of insurance_analysis.py
    self,            \* the lists of one InsuranceDataset instance
    module_loads,    \* calls of insurance_analysis.load_data() so far
    self_loads       \* calls of load_data on the instance so far

ins_vars == <<csv, ages, sexes, bmis, num_children, smoker_statuses, regions,
              insurance_charges, self, module_loads, self_loads>>

MaxCalls == 3
MaxRuns == 2

fit_vars == <<points, m_range, b_range, step, pc, possible_ms, possible_bs, m_i, b_i,
              smallest_error, best_m, best_b, result, calls, first_call, r_squared>>

VARIABLES
    students,        \* what generate_sample_student_data returned
    student_pc,      \* "call", "generated", "done"
    student_result,  \* the record analyze_students returned
    grade_list,      \* a list of grades the median_grade expression is given
    grade_median     \* <<its value>>, <<>> before

stu_vars == <<students, student_pc, student_result, grade_list, grade_median>>

VARIABLES
    abdata,          \* the table load_ab_test_data returned, as analyze_ab_test holds it
    ab_pc,           \* "call", "loaded", "done"
    ab_result        \* what analyze_ab_test returned, or the exception it raised

ab_vars == <<abdata, ab_pc, ab_result>>

VARIABLES
    species,         \* the species table load_biodiversity_data returned
    bio_pc,          \* "call", "loaded", "done"
    bio_result       \* what analyze_biodiversity returned, or the exception it raised

bio_vars == <<species, bio_pc, bio_result>>

VARIABLES
    lifespans,       \* the two tables load_familiar_data returned
    iron,
    fam_pc,          \* "call", "loaded", "done"
    fam_result       \* what analyze_familiar returned, or the exception it raised

fam_vars == <<lifespans, iron, fam_pc, fam_result>>

VARIABLES
    text,            \* the text posted to /api/cipher/encrypt, as code points
    cipher_type, shift,
    cipher_pc,       \* "call", "encrypted", "decrypted"
    encrypted,       \* what encrypt_text answered
    decrypted        \* what decrypt_text answered for the encrypted text

cipher_vars == <<text, cipher_type, shift, cipher_pc, encrypted, decrypted>>

VARIABLES
    line,            \* the line last read as a choice, or EndOfInput
    choice,          \* the last choice, stripped
    menu_pc,         \* "menu", "enter", "exited", "EOFError"
    runs,            \* the modules run so far, each with how it ended
    reads            \* the number of input() calls so far

menu_vars == <<line, choice, menu_pc, runs, reads>>

VARIABLES
    web_pc,          \* "call", "done"
    web_result,      \* what insurance_web.analyze_insurance returned or raised
    reports          \* what each smoker analysis printed or returned last

web_vars == <<web_pc, web_result, reports>>

VARIABLES
    patients,        \* the 'patients' list of medical_records.json
    med_pc,          \* "call", "loaded", "done"
    med_result       \* what analyze_medical_records returned

med_vars == <<patients, med_pc, med_result>>

\* the state of the statistics scripts and of the tools
stat_vars == <<stu_vars, ab_vars, bio_vars, fam_vars, cipher_vars, menu_vars, web_vars,
               med_vars>>

vars == <<fit_vars, ins_vars, stat_vars>>

\* what a script leaves alone
tool_vars == <<cipher_vars, menu_vars, web_vars, med_vars>>
not_cipher_vars == <<fit_vars, ins_vars, stu_vars, ab_vars, bio_vars, fam_vars, menu_vars,
                     web_vars, med_vars>>
not_menu_vars == <<fit_vars, ins_vars, stu_vars, ab_vars, bio_vars, fam_vars, cipher_vars,
                   web_vars, med_vars>>
not_web_vars == <<fit_vars, ins_vars, stu_vars, ab_vars, bio_vars, fam_vars, cipher_vars,
                  menu_vars, med_vars>>
not_med_vars == <<fit_vars, ins_vars, stu_vars, ab_vars, bio_vars, fam_vars, cipher_vars,
                  menu_vars, web_vars>>
not_stu_vars == <<fit_vars, ins_vars, ab_vars, bio_vars, fam_vars, tool_vars>>
not_ab_vars == <<fit_vars, ins_vars, stu_vars, bio_vars, fam_vars, tool_vars>>
not_bio_vars == <<fit_vars, ins_vars, stu_vars, ab_vars, fam_vars, tool_vars>>
not_fam_vars == <<fit_vars, ins_vars, stu_vars, ab_vars, bio_vars, tool_vars>>

\* (variant: the intercept is not added)
get_y_no_intercept(m, b, x) == FMulInt(m, x)

\* (variant: the slope is not applied)
get_y_no_slope(m, b, x) == FAdd(FInt(0), b)

\* m * x + b
get_y(m, b, x) == FAdd(FMulInt(m, x), b)

\* abs(y_line - y_point)
calculate_error(m, b, point) == FAbs(FSub(get_y(m, b, point[1]), FLit(point[2])))

\* sum(...) of a generator: left to right from the int 0
RECURSIVE SumFrom(_, _, _, _, _)
SumFrom(m, b, pts, i, acc) ==
    IF i > Len(pts) THEN acc
    ELSE SumFrom(m, b, pts, i + 1, FAdd(acc, calculate_error(m, b, pts[i])))

calculate_all_error(m, b, pts) == SumFrom(m, b, pts, 1, FInt(0))

\* int(x): truncation toward zero of a float
FTrunc(f) ==
    LET a  == Abs(f.n)
        ee == IF f.n > 0 THEN f.e ELSE -f.e
        q  == IF a > 0 /\ a % D = 0 /\ ee < 0 THEN (a \div D) - 1 ELSE a \div D
    IN  IF f.n >= 0 THEN q ELSE -q

\* int(bound * 10) for a range bound given in hundredths
IntTimesTen(bound) == FTrunc(FMulInt(FLit((D \div 100) * bound), 10))

\* range(int(r[0] * 10), int(r[1] * 10) + 1), as <<first, last>>; the list
\* [k / 10 for k in range(...)] has the element FDivTen(k) for each k of it
PossibleValues(r) == <<IntTimesTen(r[1]), IntTimesTen(r[2])>>

\* round(x, 2), as the number of hundredths of the result
Round2(f) ==
    LET h == f.n \div (D \div 100)
        r == f.n % (D \div 100)
        half == (D \div 100) \div 2
    IN  IF r > half \/ (r = half /\ (f.e > 0 \/ (f.e = 0 /\ h % 2 = 1)))
        THEN h + 1 ELSE h

NoResult == [kind |-> "none", best_m |-> 0, best_b |-> 0, smallest_error |-> 0, inf |-> FALSE]

\* the dict find_best_line returns
ResultRecord(se, bm, bb) ==
    [kind |-> "record", best_m |-> Round2(bm), best_b |-> Round2(bb),
     smallest_error |-> IF se.inf THEN 0 ELSE Round2(se), inf |-> se.inf]

Locals == [smallest_error |-> smallest_error, best_m |-> best_m, best_b |-> best_b]

\* (variant: the locals are not set anew, as if they were module globals)
InitLocals_stale == Locals

\* smallest_error = float("inf"); best_m = 0; best_b = 0
InitLocals == [smallest_error |-> Inf, best_m |-> FInt(0), best_b |-> FInt(0)]

\* (variant: error <= smallest_error)
Update_last(loc, m, b, error) ==
    IF loc.smallest_error.inf \/ ~FLt(loc.smallest_error, error)
    THEN [smallest_error |-> Fin(error), best_m |-> m, best_b |-> b]
    ELSE loc

\* (variant: the errors are compared after rounding to two decimals)
Update_rounded(loc, m, b, error) ==
    IF loc.smallest_error.inf \/ Round2(error) < Round2(loc.smallest_error)
    THEN [smallest_error |-> Fin(error), best_m |-> m, best_b |-> b]
    ELSE loc

\* (variant: smallest_error = error is missing)
Update_no_record(loc, m, b, error) ==
    IF LtInf(error, loc.smallest_error)
    THEN [smallest_error |-> loc.smallest_error, best_m |-> m, best_b |-> b]
    ELSE loc

\* if error < smallest_error: smallest_error = error; best_m = m; best_b = b
Update(loc, m, b, error) ==
    IF LtInf(error, loc.smallest_error)
    THEN [smallest_error |-> Fin(error), best_m |-> m, best_b |-> b]
    ELSE loc

\* the body of the inner loop, on the locals
SearchStep(loc, m, b, pts) == Update(loc, m, b, calculate_all_error(m, b, pts))

\* find_best_line is entered: the two lists are built, the locals are set
find_best_line_enter ==
    /\ pc = "call"
    /\ \E loc \in {InitLocals} :
           /\ smallest_error' = loc.smallest_error
           /\ best_m' = loc.best_m
           /\ best_b' = loc.best_b
    /\ \E ms \in {PossibleValues(m_range)}, bs \in {PossibleValues(b_range)} :
           /\ possible_ms' = ms
           /\ possible_bs' = bs
           /\ m_i' = ms[1]
           /\ b_i' = bs[1]
           /\ pc' = IF ms[1] > ms[2] \/ bs[1] > bs[2] THEN "return" ELSE "loop"
    /\ UNCHANGED <<points, m_range, b_range, step, result, calls, first_call, r_squared>>
    /\ UNCHANGED <<ins_vars, stat_vars>>

\* one pass through the body of the inner loop, and the loops' advance
find_best_line_iter ==
    /\ pc = "loop"
    /\ \E loc \in {SearchStep(Locals, FDivTen(m_i), FDivTen(b_i), points)} :
           /\ smallest_error' = loc.smallest_error
           /\ best_m' = loc.best_m
           /\ best_b' = loc.best_b
    /\ IF b_i < possible_bs[2]
       THEN /\ b_i' = b_i + 1
            /\ UNCHANGED <<m_i, pc>>
       ELSE IF m_i < possible_ms[2]
            THEN /\ m_i' = m_i + 1
                 /\ b_i' = possible_bs[1]
                 /\ UNCHANGED pc
            ELSE /\ pc' = "return"
                 /\ UNCHANGED <<m_i, b_i>>
    /\ UNCHANGED <<points, m_range, b_range, step, possible_ms, possible_bs,
                   result, calls, first_call, r_squared>>
    /\ UNCHANGED <<ins_vars, stat_vars>>

Args == [points |-> points, m_range |-> m_range, b_range |-> b_range, step |-> step]
NoCall == [args |-> [points |-> <<>>, m_range |-> <<0, 0>>, b_range |-> <<0, 0>>, step |-> 0],
           result |-> NoResult]

\* the return statement
find_best_line_return ==
    /\ pc = "return"
    /\ \E rec \in {ResultRecord(smallest_error, best_m, best_b)} :
           /\ result' = rec
           /\ first_call' = IF calls = 1 THEN [args |-> Args, result |-> rec] ELSE first_call
    /\ pc' = "done"
    /\ UNCHANGED <<points, m_range, b_range, step, possible_ms, possible_bs, m_i, b_i,
                   smallest_error, best_m, best_b, calls, r_squared>>
    /\ UNCHANGED <<ins_vars, stat_vars>>



\* a later call of find_best_line, with arguments drawn from argsets; the
\* variables that held the previous call's locals keep their values until
\* the new call sets them
find_best_line_again(argsets) ==
    /\ pc = "done"
    /\ calls < MaxCalls
    /\ \E a \in argsets :
           /\ points' = a.points
           /\ m_range' = a.m_range
           /\ b_range' = a.b_range
           /\ step' = a.step
    /\ calls' = calls + 1
    /\ pc' = "call"
    /\ UNCHANGED <<possible_ms, possible_bs, m_i, b_i, smallest_error, best_m, best_b,
                   result, first_call, r_squared>>
    /\ UNCHANGED <<ins_vars, stat_vars>>

(***************************************************************************)
(* The R-squared block of analyze_linear_regression (lines 71-79).  The    *)
(* datapoints there are ints; the block is modelled for every list of      *)
(* points with whole-number y.  Its float arithmetic (squares, a division) *)
(* is modelled on the exact decimal values: binary64 noise is far below    *)
(* the three decimals that are reported, except when the exact quotient    *)
(* lies exactly halfway between two of them, where either neighbour is     *)
(* allowed.                                                                *)
(***************************************************************************)
\* the defaults of find_best_line's signature
DefaultMRange == <<-1000, 1000>>
DefaultBRange == <<-2000, 2000>>
DefaultStep == 10

\* datapoints of analyze_linear_regression
Datapoints == << <<1, 2000>>, <<2, 0>>, <<3, 4000>>, <<4, 4000>>, <<5, 3000>> >>
\* y = 2x + 1 for x in 1..5
LinePoints == [x \in 1..5 |-> <<x, 1000 * (2 * x + 1)>>]

WholeY(pts) == \A i \in 1..Len(pts) : pts[i][2] % D = 0

\* the float with the decimal value h/100
FHundredths(h) == FLit((D \div 100) * h)

\* predictions[i] = get_y(best_line['best_m'], best_line['best_b'], point[0]),
\* its decimal value in thousandths
Prediction(res, point) == get_y(FHundredths(res.best_m), FHundredths(res.best_b), point[1]).n

RECURSIVE SumY(_, _)
SumY(pts, i) == IF i > Len(pts) THEN 0 ELSE pts[i][2] + SumY(pts, i + 1)

\* ss_res = sum((y_actual[i] - predictions[i])**2), in units of 10^-6
RECURSIVE SSRes(_, _, _)
SSRes(res, pts, i) ==
    IF i > Len(pts) THEN 0
    ELSE (pts[i][2] - Prediction(res, pts[i])) * (pts[i][2] - Prediction(res, pts[i]))
         + SSRes(res, pts, i + 1)

\* ss_tot = sum((y - y_mean)**2) with y_mean = sum(y_actual) / len(y_actual);
\* scaled by len^2 to stay in the integers: sum((len*y - sum(y))^2)
RECURSIVE SSTotScaled(_, _, _)
SSTotScaled(pts, total, i) ==
    IF i > Len(pts) THEN 0
    ELSE (Len(pts) * pts[i][2] - total) * (Len(pts) * pts[i][2] - total)
         + SSTotScaled(pts, total, i + 1)

RECURSIVE Gcd(_, _)
Gcd(a, b) == IF b = 0 THEN a ELSE Gcd(b, a % b)

\* the integers k with |num/den - k/1000| minimal (den > 0): one of them, or
\* the two neighbours of an exact half
RECURSIVE ScaledFloor(_, _, _)
ScaledFloor(num, den, digits) ==
    \* floor(num * 10^digits / den) and the remainder, by long division
    IF digits = 0 THEN <<num \div den, num % den>>
    ELSE LET qr == ScaledFloor(num, den, digits - 1)
         IN  <<10 * qr[1] + (10 * qr[2]) \div den, (10 * qr[2]) % den>>

Round3Set(num, den) ==
    LET qr == ScaledFloor(num, den, 3)
    IN  IF 2 * qr[2] < den THEN {qr[1]}
        ELSE IF 2 * qr[2] > den THEN {qr[1] + 1}
        ELSE {qr[1], qr[1] + 1}

\* (variant: ss_tot is divided by len, the variance of y)
RSquared_variance(res, pts) ==
    LET n     == Len(pts)
        sstot == SSTotScaled(pts, SumY(pts, 1), 1)
        ssres == n * n * n * SSRes(res, pts, 1)
        g     == Gcd(sstot, ssres)
    IN  IF sstot > 0
        THEN Round3Set((sstot - ssres) \div g, sstot \div g)
        ELSE {0}

\* round(1 - (ss_res / ss_tot) if ss_tot > 0 else 0, 3), in thousandths
RSquared(res, pts) ==
    LET n     == Len(pts)
        sstot == SSTotScaled(pts, SumY(pts, 1), 1)
        ssres == n * n * SSRes(res, pts, 1)
        g     == Gcd(sstot, ssres)
    IN  IF sstot > 0
        THEN Round3Set((sstot - ssres) \div g, sstot \div g)
        ELSE {0}

\* analyze_linear_regression, after find_best_line has returned
analyze_r_squared ==
    /\ pc = "done"
    /\ Len(points) > 0
    /\ WholeY(points)
    /\ \E r \in RSquared(result, points) : r_squared' = r
    /\ pc' = "analyzed"
    /\ UNCHANGED <<points, m_range, b_range, step, possible_ms, possible_bs, m_i, b_i,
                   smallest_error, best_m, best_b, result, calls, first_call>>
    /\ UNCHANGED <<ins_vars, stat_vars>>

\* analyze_linear_regression is called once more (app.py calls it for every
\* request): find_best_line(datapoints) again, on the hard-coded datapoints
analyze_linear_regression_again ==
    /\ pc = "analyzed"
    /\ points = Datapoints
    /\ calls < MaxRuns
    /\ calls' = calls + 1
    /\ pc' = "call"
    /\ UNCHANGED <<points, m_range, b_range, step, possible_ms, possible_bs, m_i, b_i,
                   smallest_error, best_m, best_b, result, first_call, r_squared>>
    /\ UNCHANGED <<ins_vars, stat_vars>>


(***************************************************************************)
(* insurance_analysis/insurance_analysis.py and insurance_analysis_class.py*)
(* A CSV record is given with its cells already converted (int(...),       *)
(* float(...)): age and children are ints, bmi is in tenths, charges in    *)
(* cents.                                                                  *)
(***************************************************************************)
MaxRows == 2
MaxLoads == 3

Column(rows, field) == [i \in 1..Len(rows) |-> rows[i][field]]

\* ages = [] ... insurance_charges = [] at import, and the attributes a new
\* InsuranceDataset starts with
EmptyLists == [ages |-> <<>>, sexes |-> <<>>, bmis |-> <<>>, num_children |-> <<>>,
               smoker_statuses |-> <<>>, regions |-> <<>>, insurance_charges |-> <<>>]

\* for row in reader: every list gets the row's cell appended
AppendRows(lists, rows) ==
    [ages              |-> lists.ages \o Column(rows, "age"),
     sexes             |-> lists.sexes \o Column(rows, "sex"),
     bmis              |-> lists.bmis \o Column(rows, "bmi"),
     num_children      |-> lists.num_children \o Column(rows, "children"),
     smoker_statuses   |-> lists.smoker_statuses \o Column(rows, "smoker"),
     regions           |-> lists.regions \o Column(rows, "region"),
     insurance_charges |-> lists.insurance_charges \o Column(rows, "charges")]

ModuleLists == [ages |-> ages, sexes |-> sexes, bmis |-> bmis, num_children |-> num_children,
                smoker_statuses |-> smoker_statuses, regions |-> regions,
                insurance_charges |-> insurance_charges]

\* insurance_analysis.load_data()
load_data ==
    /\ module_loads < MaxLoads
    /\ \E l \in {AppendRows(ModuleLists, csv)} :
           /\ ages' = l.ages
           /\ sexes' = l.sexes
           /\ bmis' = l.bmis
           /\ num_children' = l.num_children
           /\ smoker_statuses' = l.smoker_statuses
           /\ regions' = l.regions
           /\ insurance_charges' = l.insurance_charges
    /\ module_loads' = module_loads + 1
    /\ UNCHANGED <<csv, self, self_loads>>
    /\ UNCHANGED <<fit_vars, stat_vars>>

\* InsuranceDataset(csv_file): __init__ sets the empty lists and calls load_data
InsuranceDataset_init ==
    /\ self_loads = 0
    /\ self' = AppendRows(EmptyLists, csv)
    /\ self_loads' = 1
    /\ UNCHANGED <<csv, ages, sexes, bmis, num_children, smoker_statuses, regions,
                   insurance_charges, module_loads>>
    /\ UNCHANGED <<fit_vars, stat_vars>>

\* dataset.load_data(csv_file) on the existing instance
InsuranceDataset_load_data ==
    /\ self_loads >= 1
    /\ self_loads < MaxLoads
    /\ self' = AppendRows(self, csv)
    /\ self_loads' = self_loads + 1
    /\ UNCHANGED <<csv, ages, sexes, bmis, num_children, smoker_statuses, regions,
                   insurance_charges, module_loads>>
    /\ UNCHANGED <<fit_vars, stat_vars>>

\* sum(values), left to right
RECURSIVE SumList(_, _)
SumList(values, i) == IF i > Len(values) THEN 0 ELSE values[i] + SumList(values, i + 1)

\* mean(values) = sum(values) / len(values): ZeroDivisionError for the empty
\* list, else the float nearest to the quotient sum / len.  The values of the
\* records below are whole numbers or quarters, so that sum(values) is exact
\* in binary64 and the float is kept as the quotient it is nearest to.
mean(values) ==
    IF Len(values) = 0 THEN [kind |-> "ZeroDivisionError", sum |-> 0, len |-> 0]
    ELSE [kind |-> "number", sum |-> SumList(values, 1), len |-> Len(values)]

\* mean(...) == mean(...) of two means that were returned: two quotients of at
\* most MaxRows * MaxLoads such values that differ are more than one ulp apart,
\* so the floats are equal exactly when the quotients are
SameMean(p, q) ==
    /\ p.kind = "number"
    /\ q.kind = "number"
    /\ p.sum * q.len = q.sum * p.len

\* records an insurance.csv may hold; the charges are in cents
Rows ==
    { [age |-> 19, sex |-> "female", bmi |-> 279, children |-> 0, smoker |-> "yes",
       region |-> "southwest", charges |-> 1688450],
      [age |-> 18, sex |-> "male", bmi |-> 338, children |-> 1, smoker |-> "no",
       region |-> "southeast", charges |-> 172525],
      [age |-> 28, sex |-> "male", bmi |-> 330, children |-> 3, smoker |-> "no",
       region |-> "southeast", charges |-> 444975] }

CsvFiles == UNION {[1..n -> Rows] : n \in 0..MaxRows}

\* nothing of the insurance scripts has run
InsIdle(file) ==
    /\ csv = file
    /\ ages = <<>>
    /\ sexes = <<>>
    /\ bmis = <<>>
    /\ num_children = <<>>
    /\ smoker_statuses = <<>>
    /\ regions = <<>>
    /\ insurance_charges = <<>>
    /\ self = EmptyLists
    /\ module_loads = 0
    /\ self_loads = 0

(***************************************************************************)
(* student_analysis.py                                                     *)
(* A student is [math_grade, absences]; the jobs and the address of a      *)
(* student are only counted and are left out.  Reported floats are in      *)
(* hundredths: round(x, 2) of a float, 100 * i for a Python int i.         *)
(***************************************************************************)
MaxStudents == 3
MaxGrades == 4

\* for i in range(100)
StudentCount == 100

\* random.randint(0, 20) and random.randint(0, 30): some of the values
GradeValues == {0, 1, 20}
AbsenceValues == {0, 3}
StudentRows == [math_grade : GradeValues \ {0}, absences : AbsenceValues]

\* The generated lists that are enumerated: the StudentCount students come
\* in at most MaxStudents runs of equal students, each run of one of the
\* lengths below.
RunLengths == {5, 45, 50, 95, 100}
RECURSIVE SumOfRun(_)
SumOfRun(lengths) == IF lengths = <<>> THEN 0 ELSE Head(lengths) + SumOfRun(Tail(lengths))
RunSplits ==
    {lengths \in UNION {[1..r -> RunLengths] : r \in 1..MaxStudents} :
        SumOfRun(lengths) = StudentCount}
RECURSIVE RunsOf(_, _)
RunsOf(rows, lengths) ==
    IF lengths = <<>> THEN <<>>
    ELSE [i \in 1..Head(lengths) |-> Head(rows)] \o RunsOf(Tail(rows), Tail(lengths))
StudentLists ==
    UNION {{RunsOf(rows, lengths) : rows \in [1..Len(lengths) -> StudentRows]} :
               lengths \in RunSplits}

\* the lists of grades the median expression is applied to on its own
GradeLists == UNION {[1..n -> GradeValues] : n \in 1..MaxGrades}

NoSummary == [kind |-> "none"]

\* the values from v to top in ascending order, each as often as it occurs
RECURSIVE SortedFrom(_, _, _)
SortedFrom(values, v, top) ==
    IF v > top THEN <<>>
    ELSE [i \in 1..Cardinality({k \in 1..Len(values) : values[k] = v}) |-> v]
         \o SortedFrom(values, v + 1, top)

\* sorted(values) of a list of ints
sorted(values) ==
    IF Len(values) = 0 THEN <<>>
    ELSE SortedFrom(values,
                    CHOOSE v \in {values[i] : i \in 1..Len(values)} :
                        \A i \in 1..Len(values) : v <= values[i],
                    CHOOSE v \in {values[i] : i \in 1..Len(values)} :
                        \A i \in 1..Len(values) : values[i] <= v)

\* sum(values[lo..hi]) of ints, where the order of the additions is
\* immaterial: the halves are added
RECURSIVE SumRange(_, _, _)
SumRange(values, lo, hi) ==
    IF lo > hi THEN 0
    ELSE IF lo = hi THEN values[lo]
    ELSE SumRange(values, lo, (lo + hi) \div 2)
         + SumRange(values, (lo + hi) \div 2 + 1, hi)

\* sum(values)
sum(values) == SumRange(values, 1, Len(values))

\* max(values), min(values) of a non-empty list
max(values) == CHOOSE v \in {values[i] : i \in 1..Len(values)} :
                   \A i \in 1..Len(values) : values[i] <= v
min(values) == CHOOSE v \in {values[i] : i \in 1..Len(values)} :
                   \A i \in 1..Len(values) : v <= values[i]

\* round(num / den, 0) for num >= 0, den > 0: nearest, ties to even; for
\* round() of a float that is not next to a tie, or is the tie itself
RoundHalfEven(num, den) ==
    LET q == num \div den
        r == num % den
    IN  IF 2 * r > den \/ (2 * r = den /\ q % 2 = 1) THEN q + 1 ELSE q

\* (variant: the element at n//2 whatever the parity)
median_upper(values) ==
    LET sorted_grades == sorted(values)
    IN  100 * sorted_grades[Len(values) \div 2 + 1]

\* (sorted[n//2] + sorted[(n-1)//2]) / 2 if n % 2 == 0 else sorted[n//2]
median_grade(values) ==
    LET sorted_grades == sorted(values)
        n == Len(sorted_grades)
    IN  IF n % 2 = 0
        THEN 50 * (sorted_grades[n \div 2 + 1] + sorted_grades[(n - 1) \div 2 + 1])
        ELSE 100 * sorted_grades[n \div 2 + 1]

\* the keys of grade_counts in insertion order: the values in the order of
\* their first occurrence
RECURSIVE KeysFrom(_, _, _)
KeysFrom(values, i, keys) ==
    IF i > Len(values) THEN keys
    ELSE IF \E k \in 1..Len(keys) : keys[k] = values[i]
         THEN KeysFrom(values, i + 1, keys)
         ELSE KeysFrom(values, i + 1, Append(keys, values[i]))

\* grade_counts[key]
Count(values, key) == Cardinality({i \in 1..Len(values) : values[i] = key})

\* (variant: a later key of the same count replaces the earlier one)
RECURSIVE MaxKeyLast(_, _, _, _)
MaxKeyLast(values, keys, i, best) ==
    IF i > Len(keys) THEN best
    ELSE IF Count(values, keys[i]) >= Count(values, best)
         THEN MaxKeyLast(values, keys, i + 1, keys[i])
         ELSE MaxKeyLast(values, keys, i + 1, best)

\* max(grade_counts, key=grade_counts.get): the first key, in iteration
\* order, of the largest count
RECURSIVE MaxKey(_, _, _, _)
MaxKey(values, keys, i, best) ==
    IF i > Len(keys) THEN best
    ELSE IF Count(values, keys[i]) > Count(values, best)
         THEN MaxKey(values, keys, i + 1, keys[i])
         ELSE MaxKey(values, keys, i + 1, best)

mode_grade(values) ==
    LET keys == KeysFrom(values, 1, <<>>)
    IN  MaxKey(values, keys, 2, keys[1])

\* sum(x^2)
SumOfSquares(values) == sum([i \in 1..Len(values) |-> values[i] * values[i]])

\* n * sum((x - mean)^2) = n * sum(x^2) - sum(x)^2
ScaledSquaredDeviations(values) ==
    Len(values) * SumOfSquares(values) - sum(values) * sum(values)

\* the largest t in lo..hi with t^2 * den <= num: floor(sqrt(num / den))
RECURSIVE RootBetween(_, _, _, _)
RootBetween(num, den, lo, hi) ==
    IF lo = hi THEN lo
    ELSE LET mid == (lo + hi + 1) \div 2
         IN  IF mid * mid * den <= num
             THEN RootBetween(num, den, mid, hi)
             ELSE RootBetween(num, den, lo, mid - 1)

\* round(sqrt(num / den), 2) in hundredths: the h with
\* (2h - 1)^2 * den <= 40000 * num < (2h + 1)^2 * den; 40000 / den is
\* reduced first
RoundedRoot(num, den) ==
    LET g == Gcd(40000, den)
    IN  (RootBetween((40000 \div g) * num, den \div g, 0, 4096) + 1) \div 2

\* variance = sum((x - mean) ** 2) / len;  std_grade = variance ** 0.5
std_grade(values) ==
    RoundedRoot(ScaledSquaredDeviations(values), Len(values) * Len(values))

\* mean_grade = sum(math_grades) / len(math_grades), a float: len is
\* StudentCount, the quotient has two decimals.  Every float of the mean
\* absolute deviation is a multiple of the unit in the last place of
\* mean_grade, 2^-GradePrecision.
GradePrecision(values) == 52 - Binade((D \div Len(values)) * sum(values), 0)
mean_grade(values) ==
    FRoundAt((D \div Len(values)) * sum(values), 0, GradePrecision(values))

\* sum(abs(x - mean_grade) for x in math_grades[lo..hi]) added to acc: float
\* additions one by one from the left (the sum over the first half is the
\* acc of the second)
RECURSIVE SumAbsDeviations(_, _, _, _, _, _)
SumAbsDeviations(values, lo, hi, avg, p, acc) ==
    IF lo = hi THEN FAddAt(acc, FAbs(FSubAt(FInt(values[lo]), avg, p)), p)
    ELSE CHOOSE total \in
             {SumAbsDeviations(values, (lo + hi) \div 2 + 1, hi, avg, p, left) :
                  left \in {SumAbsDeviations(values, lo, (lo + hi) \div 2, avg, p, acc)}} :
             TRUE

\* round(total / 100, 2) in hundredths, total a float of precision p.  With
\* a the decimal part of total in hundredths, total / 100 is a / 10000 and a
\* rounding error; unless a / 10000 is halfway between two hundredths the
\* error decides nothing.  Halfway, the quotient is rounded to binary64
\* (c steps of its last place above the float below the halfway decimal,
\* which lies r / D of a step above it) and round() goes to the side the
\* float is on, to the even hundredth when the float is the halfway decimal.
RoundHundredth(total, p) ==
    LET a == total.n \div 10
        h == a \div 100
    IN  IF a % 100 # 50 THEN RoundHalfEven(a, 100)
        ELSE LET n_q  == a \div 10
                 b    == Binade(n_q, total.e)
                 k    == 52 - b - p
                 rho  == ((n_q % (2 * D)) * Pow2Mod(52 - b)) % (2 * D)
                 qpar == rho \div D
                 r    == rho % D
                 num  == IF k >= 0 THEN 100 * r + total.e * Pow2(k)
                         ELSE 100 * r * Pow2(-k) + total.e
                 den  == IF k >= 0 THEN 100 * D ELSE 100 * D * Pow2(-k)
                 c0   == num \div den
                 rem  == num - c0 * den
                 c    == IF 2 * rem > den \/ (2 * rem = den /\ (qpar + c0) % 2 = 1)
                         THEN c0 + 1 ELSE c0
             IN  IF c = 0 /\ r = 0 THEN (IF h % 2 = 0 THEN h ELSE h + 1)
                 ELSE IF c * D > r THEN h + 1
                 ELSE h

\* round(sum(abs(x - mean_grade) for x in math_grades) / len(math_grades), 2)
\* for the float mean_grade of precision p
MadFrom(values, avg, p) ==
    CHOOSE h \in {RoundHundredth(total, p) :
                     total \in {SumAbsDeviations(values, 1, Len(values), avg, p, FInt(0))}} :
        TRUE

\* mad_grade = sum(abs(x - mean_grade) for x in math_grades) / len(math_grades),
\* as round(mad_grade, 2) reports it
mad_grade(values) ==
    IF sum(values) = 0 THEN 0
    ELSE CHOOSE h \in {MadFrom(values, x[1], x[2]) :
                          x \in {<<mean_grade(values), GradePrecision(values)>>}} : TRUE

\* bin_key = (grade // 2) * 2, counted, sorted by key
grade_distribution(values) ==
    [k \in {(values[i] \div 2) * 2 : i \in 1..Len(values)} |->
        Cardinality({i \in 1..Len(values) : (values[i] \div 2) * 2 = k})]

Column2(rows, field) == [i \in 1..Len(rows) |-> rows[i][field]]

\* the record analyze_students returns for the list of students
StudentSummary(rows) ==
    LET math_grades == Column2(rows, "math_grade")
        absences == Column2(rows, "absences")
        sorted_absences == sorted(absences)
        n == Len(math_grades)
    IN  [kind |-> "record",
         total_students |-> Len(rows),
         mean_grade |-> RoundHalfEven(100 * sum(math_grades), n),
         median_grade |-> median_grade(math_grades),
         mode_grade |-> mode_grade(math_grades),
         grade_range |-> max(math_grades) - min(math_grades),
         std_grade |-> std_grade(math_grades),
         mad_grade |-> mad_grade(math_grades),
         grade_distribution |-> grade_distribution(math_grades),
         absences_summary |->
             [mean |-> RoundHalfEven(100 * sum(absences), Len(absences)),
              max |-> max(absences),
              min |-> min(absences),
              median |-> sorted_absences[Len(absences) \div 2 + 1]]]

\* students = generate_sample_student_data(): the random module decides
generate_sample_student_data ==
    /\ student_pc = "call"
    /\ students' \in StudentLists
    /\ student_pc' = "generated"
    /\ UNCHANGED <<student_result, grade_list, grade_median>>
    /\ UNCHANGED not_stu_vars

\* the rest of analyze_students
analyze_students ==
    /\ student_pc = "generated"
    /\ student_result' = StudentSummary(students)
    /\ student_pc' = "done"
    /\ UNCHANGED <<students, grade_list, grade_median>>
    /\ UNCHANGED not_stu_vars

\* median_grade = (sorted_grades[n//2] + sorted_grades[(n-1)//2]) / 2 if ...
\* else ..., the expression alone on a list of grades
median_grade_of_list ==
    /\ grade_median = <<>>
    /\ Len(grade_list) > 0
    /\ grade_median' = <<median_grade(grade_list)>>
    /\ UNCHANGED <<students, student_pc, student_result, grade_list>>
    /\ UNCHANGED not_stu_vars

\* analyze_students has not been called
StudentsIdle ==
    /\ students = <<>>
    /\ student_pc = "call"
    /\ student_result = NoSummary

StuIdle ==
    /\ StudentsIdle
    /\ grade_list = <<>>
    /\ grade_median = <<>>

(***************************************************************************)
(* scipy.stats.chi2_contingency, as the scripts call it                    *)
(* A table is a list of rows of counts.  The statistic is kept as the      *)
(* exact fraction [num, den]; the p-value is kept as the set of the        *)
(* levels in Alphas (in percent) that it is below.                         *)
(***************************************************************************)
\* the level compared with in "pval < 0.05", in percent
SignificanceLevel == 5
Alphas == {1, 5, 10}

\* the chi-square quantiles 1 - alpha, in thousandths rounded up, by degrees
\* of freedom: p < alpha iff the statistic is above the quantile
ChiSquareQuantile ==
    << [a \in Alphas |-> CASE a = 1 -> 6635 [] a = 5 -> 3842 [] a = 10 -> 2706],
       [a \in Alphas |-> CASE a = 1 -> 9211 [] a = 5 -> 5992 [] a = 10 -> 4606],
       [a \in Alphas |-> CASE a = 1 -> 11345 [] a = 5 -> 7815 [] a = 10 -> 6252],
       [a \in Alphas |-> CASE a = 1 -> 13277 [] a = 5 -> 9488 [] a = 10 -> 7780] >>

RECURSIVE Product(_)
Product(values) == IF values = <<>> THEN 1 ELSE Head(values) * Product(Tail(values))

RowTotals(observed) == [i \in 1..Len(observed) |-> sum(observed[i])]
ColTotals(observed) ==
    [j \in 1..Len(observed[1]) |-> sum([i \in 1..Len(observed) |-> observed[i][j]])]

\* 2 * n * (|observed - expected| - correction) for the cell i, j, where
\* expected = row total * column total / n and the correction (Yates, when
\* there is 1 degree of freedom) is min(0.5, |observed - expected|)
Deviation(observed, i, j, n, correction) ==
    LET d == 2 * Abs(observed[i][j] * n - RowTotals(observed)[i] * ColTotals(observed)[j])
    IN  IF correction THEN (IF d < n THEN 0 ELSE d - n) ELSE d

\* sum over the cells k.. of (observed' - expected)^2 / expected, times
\* 4 * n * (product of the row totals) * (product of the column totals)
RECURSIVE StatisticFrom(_, _, _, _)
StatisticFrom(observed, k, n, correction) ==
    LET nc == Len(observed[1])
        i == ((k - 1) \div nc) + 1
        j == ((k - 1) % nc) + 1
        dev == Deviation(observed, i, j, n, correction)
    IN  IF k > Len(observed) * nc THEN 0
        ELSE dev * dev * (Product(RowTotals(observed)) \div RowTotals(observed)[i])
                       * (Product(ColTotals(observed)) \div ColTotals(observed)[j])
             + StatisticFrom(observed, k + 1, n, correction)

\* the fraction num / den in lowest terms
Fraction(num, den) == [num |-> num \div Gcd(num, den), den |-> den \div Gcd(num, den)]

\* p < alpha for the statistic chi2 with dof degrees of freedom
PLess(chi2, dof, alpha) ==
    /\ dof > 0
    /\ ScaledFloor(chi2.num, chi2.den, 3)[1] >= ChiSquareQuantile[dof][alpha]

PBelow(chi2, dof) == {a \in Alphas : PLess(chi2, dof, a)}

\* chi2, p, dof, expected = chi2_contingency(observed)
chi2_contingency(observed) ==
    IF Len(observed) = 0 \/ Len(observed[1]) = 0
    THEN [kind |-> "ValueError"]             \* No data; observed has size 0
    ELSE IF \E i \in 1..Len(observed), j \in 1..Len(observed[1]) :
                RowTotals(observed)[i] * ColTotals(observed)[j] = 0
    THEN [kind |-> "ValueError"]             \* a zero element in expected
    ELSE LET dof == (Len(observed) - 1) * (Len(observed[1]) - 1)
             n == sum(RowTotals(observed))
             chi2 == IF dof = 0 THEN Fraction(0, 1)
                     ELSE Fraction(StatisticFrom(observed, 1, n, dof = 1),
                                   4 * n * Product(RowTotals(observed))
                                         * Product(ColTotals(observed)))
         IN  [kind |-> "result", chi2 |-> chi2, dof |-> dof, p_below |-> PBelow(chi2, dof)]

(***************************************************************************)
(* ab_test_analysis.py                                                     *)
(* A row of the data is [group, is_purchase].  pd.read_csv returns what    *)
(* csv/clicks.csv holds: is_purchase is Yes, No, any other text (Maybe     *)
(* stands for it) or missing (NaN, an empty cell).  Rates are in           *)
(* hundredths of a percent.  The conversion difference and the relative    *)
(* lift, which are derived from the two conversion rates for display, are  *)
(* left out.                                                               *)
(***************************************************************************)
MaxCell == 4
MaxOther == 1

GroupLevels == <<"A", "B", "C">>
\* the missing value pd.read_csv gives for an empty cell
Missing == "NaN"
\* the values of is_purchase other than the missing one, in the order pd.crosstab sorts
\* its columns
PurchaseLevels == <<"Maybe", "No", "Yes">>

\* k times the row
RECURSIVE Repeat(_, _)
Repeat(row, k) == IF k = 0 THEN <<>> ELSE <<row>> \o Repeat(row, k - 1)

\* the data with the given number of rows of each kind, group by group
AbRows(ay, an, am, ax, by, bn, cy, cn) ==
    Repeat([group |-> "A", is_purchase |-> "Yes"], ay)
    \o Repeat([group |-> "A", is_purchase |-> "No"], an)
    \o Repeat([group |-> "A", is_purchase |-> "Maybe"], am)
    \o Repeat([group |-> "A", is_purchase |-> Missing], ax)
    \o Repeat([group |-> "B", is_purchase |-> "Yes"], by)
    \o Repeat([group |-> "B", is_purchase |-> "No"], bn)
    \o Repeat([group |-> "C", is_purchase |-> "Yes"], cy)
    \o Repeat([group |-> "C", is_purchase |-> "No"], cn)

AbDatasets ==
    {AbRows(ay, an, am, ax, by, bn, cy, cn) :
        ay \in 0..MaxCell, an \in 0..MaxCell, am \in 0..MaxOther, ax \in 0..MaxOther,
        by \in 0..MaxCell, bn \in 0..MaxCell, cy \in 0..MaxOther, cn \in 0..MaxOther}

NoAbResult == [kind |-> "none"]

\* len(data[data[field] == level])
CountWhere(data, field, level) ==
    Cardinality({i \in 1..Len(data) : data[i][field] = level})

\* the levels of a column that occur in the data, in lexical order
LevelsIn(data, field, levels) ==
    LET Present(level) == CountWhere(data, field, level) > 0
    IN  SelectSeq(levels, Present)

\* the rows pd.crosstab counts: a row with a missing value is dropped
HasPurchase(row) == row.is_purchase # Missing

\* pd.crosstab(abdata['group'], abdata['is_purchase']): a row of the table
\* for every group and a column for every value of is_purchase that occur in
\* the rows it counts, both sorted
crosstab(data) ==
    LET kept == SelectSeq(data, HasPurchase)
        index == LevelsIn(kept, "group", GroupLevels)
        columns == LevelsIn(kept, "is_purchase", PurchaseLevels)
    IN  [index |-> index,
         columns |-> columns,
         values |-> [i \in 1..Len(index) |-> [j \in 1..Len(columns) |->
                        Cardinality({k \in 1..Len(kept) :
                            /\ kept[k].group = index[i]
                            /\ kept[k].is_purchase = columns[j]})]]]

InSeq(x, s) == \E i \in 1..Len(s) : s[i] = x
IndexOf(x, s) == CHOOSE i \in 1..Len(s) : s[i] = x

\* int(contingency.loc[g, p]) if g in contingency.index and p in contingency.columns else 0
Cell(contingency, g, p) ==
    IF InSeq(g, contingency.index) /\ InSeq(p, contingency.columns)
    THEN contingency.values[IndexOf(g, contingency.index)][IndexOf(p, contingency.columns)]
    ELSE 0

\* (purchases / users) * 100 if users > 0 else 0, rounded to 2 decimals
conversion(purchases, users) ==
    IF users > 0 THEN [kind |-> "rate", value |-> RoundHalfEven(10000 * purchases, users)]
    ELSE [kind |-> "rate", value |-> 0]

\* the purchases among the rows of a group
Purchases(data, g) ==
    Cardinality({i \in 1..Len(data) : data[i].group = g /\ data[i].is_purchase = "Yes"})

\* what analyze_ab_test returns for the data
AbResult(data) ==
    LET contingency == crosstab(data)
        test == chi2_contingency(contingency.values)
    IN  IF test.kind = "ValueError" THEN [kind |-> "ValueError"]
        ELSE [kind |-> "record",
              overall_stats |->
                  [total_users |-> Len(data),
                   total_purchases |-> CountWhere(data, "is_purchase", "Yes"),
                   overall_conversion_rate |->
                       RoundHalfEven(10000 * CountWhere(data, "is_purchase", "Yes"), Len(data))],
              group_a |->
                  [users |-> CountWhere(data, "group", "A"),
                   purchases |-> Purchases(data, "A"),
                   conversion_rate |->
                       conversion(Purchases(data, "A"), CountWhere(data, "group", "A")).value],
              group_b |->
                  [users |-> CountWhere(data, "group", "B"),
                   purchases |-> Purchases(data, "B"),
                   conversion_rate |->
                       conversion(Purchases(data, "B"), CountWhere(data, "group", "B")).value],
              is_significant |-> PLess(test.chi2, test.dof, SignificanceLevel),
              statistical_test |->
                  [chi2 |-> test.chi2,
                   p_below |-> test.p_below,
                   degrees_of_freedom |-> test.dof,
                   significant |-> PLess(test.chi2, test.dof, SignificanceLevel)],
              contingency_table |->
                  [group_a |-> [yes |-> Cell(contingency, "A", "Yes"),
                                no |-> Cell(contingency, "A", "No")],
                   group_b |-> [yes |-> Cell(contingency, "B", "Yes"),
                                no |-> Cell(contingency, "B", "No")]]]

\* abdata = load_ab_test_data(): the rows of csv/clicks.csv, or the sample
load_ab_test_data ==
    /\ ab_pc = "call"
    /\ abdata' \in AbDatasets
    /\ ab_pc' = "loaded"
    /\ UNCHANGED ab_result
    /\ UNCHANGED not_ab_vars

\* (abdata['is_purchase'] == 'Yes').astype(int)
purchased(row) == IF row.is_purchase = "Yes" THEN 1 ELSE 0

\* abdata['purchased'] = ...: the loader's table gets a third column
AddPurchased(data) ==
    [i \in 1..Len(data) |-> [group |-> data[i].group,
                             is_purchase |-> data[i].is_purchase,
                             purchased |-> purchased(data[i])]]

\* the rest of analyze_ab_test; the new column is assigned before anything
\* that can raise
analyze_ab_test ==
    /\ ab_pc = "loaded"
    /\ ab_result' = AbResult(abdata)
    /\ ab_pc' = "done"
    /\ abdata' = AddPurchased(abdata)
    /\ UNCHANGED not_ab_vars

AbIdle ==
    /\ abdata = <<>>
    /\ ab_pc = "call"
    /\ ab_result = NoAbResult

(***************************************************************************)
(* biodiversity_analysis.py                                                *)
(* A species is [scientific_name, category, conservation_status]; the      *)
(* names are numbers and differ from row to row.  The observations table   *)
(* and what is derived from it alone (top species) are left out, and so is *)
(* the status distribution.  percent_protected is in hundredths.           *)
(***************************************************************************)
MaxSpecies == 2

Categories == <<"Amphibian", "Bird", "Fish">>

\* the species table with the given numbers of protected and unprotected
\* species of each category, before the names are given
RECURSIVE SpeciesOf(_, _)
SpeciesOf(counts, k) ==
    IF k > Len(Categories) THEN <<>>
    ELSE Repeat([category |-> Categories[k], conservation_status |-> "Endangered"],
                counts[k][1])
         \o Repeat([category |-> Categories[k], conservation_status |-> "No Intervention"],
                   counts[k][2])
         \o SpeciesOf(counts, k + 1)

Named(rows) ==
    [i \in 1..Len(rows) |-> [scientific_name |-> i,
                             category |-> rows[i].category,
                             conservation_status |-> rows[i].conservation_status]]

SpeciesTables ==
    {Named(SpeciesOf(counts, 1)) :
        counts \in [1..Len(Categories) -> (0..MaxSpecies) \X (0..MaxSpecies)]}

NoBioResult == [kind |-> "none"]

\* species['is_protected'] = species['conservation_status'] != 'No Intervention'
is_protected(row) == row.conservation_status # "No Intervention"

\* groupby(['category', 'is_protected'])['scientific_name'].nunique()
SpeciesCount(table, category, protected) ==
    Cardinality({table[i].scientific_name : i \in
        {k \in 1..Len(table) : /\ table[k].category = category
                               /\ is_protected(table[k]) = protected}})

\* the index of category_pivot: the categories that occur, in lexical order
PivotIndex(table) ==
    LET Present(category) == \E i \in 1..Len(table) : table[i].category = category
    IN  SelectSeq(Categories, Present)

\* the columns of the pivot before they are renamed: the values of
\* is_protected that occur
PivotColumns(table) == {is_protected(table[i]) : i \in 1..Len(table)}

\* the pairs i, j of the two for loops, as positions in categories_list
LoopPairs(len) ==
    {<<i, j>> \in (1..3) \X (1..4) : i < j /\ i <= len /\ j <= len}

\* category_pivot.loc[[cat1, cat2], ['protected', 'not_protected']].values
PairTable(table, cat1, cat2) ==
    << <<SpeciesCount(table, cat1, TRUE), SpeciesCount(table, cat1, FALSE)>>,
       <<SpeciesCount(table, cat2, TRUE), SpeciesCount(table, cat2, FALSE)>> >>

\* the pairs whose test did not raise: try ... except: pass
PairsKept(table, pairs) ==
    {q \in pairs :
        chi2_contingency(PairTable(table, PivotIndex(table)[q[1]],
                                   PivotIndex(table)[q[2]])).kind = "result"}

\* chi_square_results, keyed by <<cat1, cat2>> for the key 'cat1_vs_cat2'
chi_square_results(table) ==
    LET categories_list == PivotIndex(table)
        kept == PairsKept(table, LoopPairs(Len(categories_list)))
    IN  [key \in {<<categories_list[q[1]], categories_list[q[2]]>> : q \in kept} |->
            LET test == chi2_contingency(PairTable(table, key[1], key[2]))
            IN  [chi2 |-> test.chi2,
                 p_below |-> test.p_below,
                 significant |-> PLess(test.chi2, test.dof, SignificanceLevel)]]

\* what analyze_biodiversity returns for the species table
BioResult(table) ==
    IF PivotColumns(table) # {TRUE, FALSE}
    THEN [kind |-> "ValueError"]     \* category_pivot.columns = [2 names]
    ELSE LET categories_list == PivotIndex(table)
         IN  [kind |-> "record",
              category_protection |->
                  [categories |-> categories_list,
                   percent_protected |->
                       [i \in 1..Len(categories_list) |->
                           RoundHalfEven(10000 * SpeciesCount(table, categories_list[i], TRUE),
                                         SpeciesCount(table, categories_list[i], TRUE)
                                         + SpeciesCount(table, categories_list[i], FALSE))],
                   protected_counts |->
                       [i \in 1..Len(categories_list) |->
                           SpeciesCount(table, categories_list[i], TRUE)],
                   total_counts |->
                       [i \in 1..Len(categories_list) |->
                           SpeciesCount(table, categories_list[i], TRUE)
                           + SpeciesCount(table, categories_list[i], FALSE)]],
              chi_square_results |-> chi_square_results(table),
              total_species |-> Len(table)]

\* species, observations = load_biodiversity_data()
load_biodiversity_data ==
    /\ bio_pc = "call"
    /\ species' \in SpeciesTables
    /\ bio_pc' = "loaded"
    /\ UNCHANGED bio_result
    /\ UNCHANGED not_bio_vars

\* species['is_protected'] = ...: the loader's table gets a fourth column
AddIsProtected(table) ==
    [i \in 1..Len(table) |-> [scientific_name |-> table[i].scientific_name,
                              category |-> table[i].category,
                              conservation_status |-> table[i].conservation_status,
                              is_protected |-> is_protected(table[i])]]

\* the rest of analyze_biodiversity; the new column is assigned before
\* anything that can raise
analyze_biodiversity ==
    /\ bio_pc = "loaded"
    /\ bio_result' = BioResult(species)
    /\ bio_pc' = "done"
    /\ species' = AddIsProtected(species)
    /\ UNCHANGED not_bio_vars

BioIdle ==
    /\ species = <<>>
    /\ bio_pc = "call"
    /\ bio_result = NoBioResult

(***************************************************************************)
(* familiar_analysis.py                                                    *)
(* A row of lifespans is [pack, lifespan], a row of iron is [pack, iron].  *)
(* Means are exact fractions, a standard deviation is kept as its square,  *)
(* the t statistic as its sign and its square, a p-value as the set of     *)
(* the levels in Alphas that it is below.                                  *)
(***************************************************************************)
MaxSample == 2
MaxIron == 1

LifespanValues == {70, 71, 80}
Packs == <<"artery", "vein">>
IronLevels == <<"high", "low", "normal">>

\* the samples of up to MaxSample lifespans, in ascending order
LifespanSamples ==
    {smp \in UNION {[1..n -> LifespanValues] : n \in 0..MaxSample} :
        \A i \in 1..(Len(smp) - 1) : smp[i] <= smp[i + 1]}

PackRows(pack, smp) == [i \in 1..Len(smp) |-> [pack |-> pack, lifespan |-> smp[i]]]

\* the tables of at least one row: the vein rows, then the artery rows
LifespanTables ==
    {PackRows("vein", v) \o PackRows("artery", a) :
        v \in LifespanSamples, a \in LifespanSamples} \ {<<>>}

RECURSIVE IronOf(_, _, _)
IronOf(pack, counts, k) ==
    IF k > Len(IronLevels) THEN <<>>
    ELSE Repeat([pack |-> pack, iron |-> IronLevels[k]], counts[k])
         \o IronOf(pack, counts, k + 1)

IronTables ==
    {IronOf("vein", v, 1) \o IronOf("artery", a, 1) :
        v \in [1..Len(IronLevels) -> 0..MaxIron],
        a \in [1..Len(IronLevels) -> 0..MaxIron]} \ {<<>>}

NoFamResult == [kind |-> "none"]
NaN == [kind |-> "nan"]

\* the two-sided quantiles 1 - alpha of the square of Student's t, in
\* thousandths rounded up, by degrees of freedom: p < alpha iff t^2 is above
TSquareQuantile ==
    << [a \in Alphas |-> CASE a = 1 -> 4052181 [] a = 5 -> 161448 [] a = 10 -> 39864],
       [a \in Alphas |-> CASE a = 1 -> 98503 [] a = 5 -> 18513 [] a = 10 -> 8527],
       [a \in Alphas |-> CASE a = 1 -> 34117 [] a = 5 -> 10128 [] a = 10 -> 5539],
       [a \in Alphas |-> CASE a = 1 -> 21198 [] a = 5 -> 7709 [] a = 10 -> 4545],
       [a \in Alphas |-> CASE a = 1 -> 16259 [] a = 5 -> 6608 [] a = 10 -> 4061],
       [a \in Alphas |-> CASE a = 1 -> 13746 [] a = 5 -> 5988 [] a = 10 -> 3776] >>

\* lifespans[lifespans['pack'] == pack]['lifespan']
Sample(table, pack) ==
    LET Of(row) == row.pack = pack
        rows == SelectSeq(table, Of)
    IN  [i \in 1..Len(rows) |-> rows[i].lifespan]

\* the sign of an integer
Sign(i) == IF i < 0 THEN -1 ELSE IF i > 0 THEN 1 ELSE 0

\* tstat, pval = ttest_ind(a, b): the pooled-variance test.  The variance of
\* a sample of one observation counts as 0 (its squared deviations are);
\* nan for an empty sample, for 0 degrees of freedom and for the statistic
\* 0/0, infinite when only the pooled variance is 0
ttest_ind(a, b) ==
    LET n1 == Len(a)
        n2 == Len(b)
        df == n1 + n2 - 2
        d == sum(a) * n2 - sum(b) * n1
        w == n2 * ScaledSquaredDeviations(a) + n1 * ScaledSquaredDeviations(b)
        t2 == Fraction(d * d * df, (n1 + n2) * w)
    IN  IF n1 = 0 \/ n2 = 0 \/ df = 0 \/ (w = 0 /\ d = 0)
        THEN [kind |-> "nan", sign |-> 0, square |-> Fraction(0, 1), p_below |-> {}]
        ELSE IF w = 0
        THEN [kind |-> "inf", sign |-> Sign(d), square |-> Fraction(0, 1), p_below |-> Alphas]
        ELSE [kind |-> "number", sign |-> Sign(d), square |-> t2,
              p_below |-> {al \in Alphas :
                              ScaledFloor(t2.num, t2.den, 3)[1] >= TSquareQuantile[df][al]}]

\* groupby('pack')['lifespan'].agg(['mean', 'std', 'count']) of one pack,
\* read with .get(pack, 0)
PackStats(smp) ==
    IF Len(smp) = 0
    THEN [mean |-> Fraction(0, 1), std |-> [kind |-> "number", square |-> Fraction(0, 1)],
          count |-> 0]
    ELSE [mean |-> Fraction(sum(smp), Len(smp)),
          std |-> IF Len(smp) = 1 THEN NaN
                  ELSE [kind |-> "number",
                        square |-> Fraction(ScaledSquaredDeviations(smp),
                                            Len(smp) * (Len(smp) - 1))],
          count |-> Len(smp)]

\* iron.groupby(['pack', 'iron']).size().unstack(fill_value=0)
iron_distribution(table) ==
    LET index == LevelsIn(table, "pack", Packs)
        columns == LevelsIn(table, "iron", IronLevels)
    IN  [index |-> index,
         columns |-> columns,
         values |-> [i \in 1..Len(index) |-> [j \in 1..Len(columns) |->
                        Cardinality({k \in 1..Len(table) :
                            /\ table[k].pack = index[i]
                            /\ table[k].iron = columns[j]})]]]

\* {level: int(iron_distribution.loc[pack, level]) if pack in index else 0}
IronRow(dist, pack) ==
    [level \in {IronLevels[k] : k \in 1..Len(IronLevels)} |->
        IF InSeq(pack, dist.index)
        THEN dist.values[IndexOf(pack, dist.index)][IndexOf(level, dist.columns)]
        ELSE 0]

\* what analyze_familiar returns for the two tables
FamResult(life, irn) ==
    LET test == ttest_ind(Sample(life, "vein"), Sample(life, "artery"))
        dist == iron_distribution(irn)
        iron_test == chi2_contingency(dist.values)
    IN  IF iron_test.kind = "ValueError" THEN [kind |-> "ValueError"]
        ELSE IF Len(dist.columns) < Len(IronLevels) THEN [kind |-> "KeyError"]
        ELSE [kind |-> "record",
              lifespan_stats |-> [vein |-> PackStats(Sample(life, "vein")),
                                  artery |-> PackStats(Sample(life, "artery"))],
              lifespan_test |-> [t_statistic |-> [kind |-> test.kind, sign |-> test.sign,
                                                  square |-> test.square],
                                 p_value |-> [kind |-> IF test.kind = "nan" THEN "nan"
                                                       ELSE "number",
                                              p_below |-> test.p_below],
                                 significant |-> SignificanceLevel \in test.p_below],
              iron_distribution |-> [vein |-> IronRow(dist, "vein"),
                                     artery |-> IronRow(dist, "artery")],
              iron_test |-> [chi2 |-> iron_test.chi2,
                             p_below |-> iron_test.p_below,
                             significant |-> PLess(iron_test.chi2, iron_test.dof,
                                                   SignificanceLevel)],
              total_samples |-> Len(life)]

\* lifespans, iron = load_familiar_data()
load_familiar_data ==
    /\ fam_pc = "call"
    /\ lifespans' \in LifespanTables
    /\ iron' \in IronTables
    /\ fam_pc' = "loaded"
    /\ UNCHANGED fam_result
    /\ UNCHANGED not_fam_vars

\* the rest of analyze_familiar
analyze_familiar ==
    /\ fam_pc = "loaded"
    /\ fam_result' = FamResult(lifespans, iron)
    /\ fam_pc' = "done"
    /\ UNCHANGED <<lifespans, iron>>
    /\ UNCHANGED not_fam_vars

FamIdle ==
    /\ lifespans = <<>>
    /\ iron = <<>>
    /\ fam_pc = "call"
    /\ fam_result = NoFamResult

(***************************************************************************)
(* cipher_tools.py and the cipher endpoints of app.py                      *)
(* A string is the sequence of its code points. str.isalpha, str.isupper   *)
(* and chr are those of Python 3 on the code points below 256.             *)
(***************************************************************************)
MaxText == 2
MaxShift == 27

\* space, '1', 'A', 'Z', 'a', 'z', the ordinal indicator, 'E' and 'e' acute
CodePoints == {32, 49, 65, 90, 97, 122, 170, 201, 233}
Texts == UNION {[1..n -> CodePoints] : n \in 0..MaxText}
CipherTypes == {"caesar", "reverse", "atbash", "rot13"}

\* char.isalpha()
isalpha(char) ==
    \/ char \in 65..90 \/ char \in 97..122 \/ char \in {170, 181, 186}
    \/ char \in 192..214 \/ char \in 216..246 \/ char \in 248..255

\* char.isupper()
isupper(char) == char \in 65..90 \/ char \in 192..214 \/ char \in 216..222

\* base = ord('A') if char.isupper() else ord('a')
base(char) == IF isupper(char) THEN 65 ELSE 97

Str(value) == [kind |-> "str", value |-> value]
ValueError == [kind |-> "ValueError", value |-> <<>>]

\* ''.join(result), where result holds chr(code) for each code: chr raises
\* ValueError for a negative argument
join(codes) ==
    IF \E i \in 1..Len(codes) : codes[i] < 0 THEN ValueError ELSE Str(codes)

\* the code caesar_cipher appends for one character
caesar_char(char, by, encrypt) ==
    IF isalpha(char)
    THEN base(char) + ((char - base(char) + (IF encrypt THEN by ELSE -by)) % 26)
    ELSE char

\* CipherTools.caesar_cipher(text, shift, encrypt)
caesar_cipher(txt, by, encrypt) ==
    IF Len(txt) = 0 THEN Str(<<>>)
    ELSE join([i \in 1..Len(txt) |-> caesar_char(txt[i], by, encrypt)])

\* CipherTools.reverse_cipher(text): text[::-1]
reverse_cipher(txt) == Str([i \in 1..Len(txt) |-> txt[Len(txt) + 1 - i]])

\* the code atbash_cipher passes to chr for one character
atbash_char(char) ==
    IF isalpha(char) THEN base(char) + (25 - (char - base(char))) ELSE char

\* CipherTools.atbash_cipher(text)
atbash_cipher(txt) == join([i \in 1..Len(txt) |-> atbash_char(txt[i])])

\* the if/elif chain of encrypt_text (encrypt) and of decrypt_text
Dispatch(txt, type, by, encrypt) ==
    CASE type = "caesar" -> caesar_cipher(txt, by, encrypt)
      [] type = "reverse" -> reverse_cipher(txt)
      [] type = "atbash" -> atbash_cipher(txt)
      [] OTHER -> Str(txt)

NoAnswer == [kind |-> "none", value |-> <<>>]

\* POST /api/cipher/encrypt
encrypt_text ==
    /\ cipher_pc = "call"
    /\ text' \in Texts
    /\ cipher_type' \in CipherTypes
    /\ shift' \in (-MaxShift)..MaxShift
    /\ encrypted' = Dispatch(text', cipher_type', shift', TRUE)
    /\ cipher_pc' = "encrypted"
    /\ UNCHANGED decrypted
    /\ UNCHANGED not_cipher_vars

\* POST /api/cipher/decrypt with the encrypted text, the same cipher_type
\* and the same shift
decrypt_text ==
    /\ cipher_pc = "encrypted"
    /\ encrypted.kind = "str"
    /\ decrypted' = Dispatch(encrypted.value, cipher_type, shift, FALSE)
    /\ cipher_pc' = "decrypted"
    /\ UNCHANGED <<text, cipher_type, shift, encrypted>>
    /\ UNCHANGED not_cipher_vars

CipherIdle ==
    /\ text = <<>>
    /\ cipher_type = "caesar"
    /\ shift = 3
    /\ cipher_pc = "call"
    /\ encrypted = NoAnswer
    /\ decrypted = NoAnswer

(***************************************************************************)
(* main.py                                                                 *)
(* A line of input is the sequence of its characters. A module that is run *)
(* ends normally, cannot be imported, or raises an Exception; run_* catches*)
(* the last two and returns.                                               *)
(***************************************************************************)
MaxLine == 3
MaxInputs == 3

MenuChars == {" ", "1", "4", "5"}
Lines == UNION {[1..n -> MenuChars] : n \in 0..MaxLine}
\* input() at the end of the input raises EOFError
EndOfInput == <<"EOF">>

Outcomes == {"returned", "ImportError", "Exception"}
Modules == [one |-> "hurricane_analysis", two |-> "medical_system",
            three |-> "quiz_modules", four |-> "cipher_tools"]

RECURSIVE lstrip(_)
lstrip(str) == IF str # <<>> /\ Head(str) = " " THEN lstrip(Tail(str)) ELSE str
RECURSIVE rstrip(_)
rstrip(str) ==
    IF str # <<>> /\ str[Len(str)] = " " THEN rstrip(SubSeq(str, 1, Len(str) - 1)) ELSE str

\* (variant: the choice is compared as typed)
strip_none(str) == str

\* str.strip()
strip(str) == rstrip(lstrip(str))

\* the module the if/elif chain of main runs for a choice, if any
ModuleFor(chosen) ==
    CASE chosen = <<"1">> -> <<Modules.one>>
      [] chosen = <<"2">> -> <<Modules.two>>
      [] chosen = <<"3">> -> <<Modules.three>>
      [] chosen = <<"4">> -> <<Modules.four>>
      [] OTHER -> <<>>

\* show_menu(); choice = input(...).strip(); the if/elif chain, up to the
\* second input() or the break
main_choice ==
    /\ menu_pc = "menu"
    /\ reads < MaxInputs
    /\ reads' = reads + 1
    /\ \E in \in Lines \cup {EndOfInput} :
       \E outcome \in IF ModuleFor(strip(in)) = <<>> THEN {"returned"} ELSE Outcomes :
           /\ line' = in
           /\ IF in = EndOfInput
              THEN /\ menu_pc' = "EOFError"
                   /\ UNCHANGED <<choice, runs>>
              ELSE /\ choice' = strip(in)
                   /\ runs' = runs \o [i \in 1..Len(ModuleFor(choice')) |->
                                          [module |-> ModuleFor(choice')[i],
                                           outcome |-> outcome]]
                   /\ menu_pc' = IF choice' = <<"5">> THEN "exited" ELSE "enter"
    /\ UNCHANGED not_menu_vars

\* input("\nPress Enter to continue..."), whose value is dropped, and the
\* loop goes round
main_enter ==
    /\ menu_pc = "enter"
    /\ reads < MaxInputs
    /\ reads' = reads + 1
    /\ \E in \in Lines \cup {EndOfInput} :
           /\ line' = IF in = EndOfInput THEN EndOfInput ELSE line
           /\ menu_pc' = IF in = EndOfInput THEN "EOFError" ELSE "menu"
    /\ UNCHANGED <<choice, runs>>
    /\ UNCHANGED not_menu_vars

MenuIdle ==
    /\ line = <<>>
    /\ choice = <<>>
    /\ menu_pc = "menu"
    /\ runs = <<>>
    /\ reads = 0

(***************************************************************************)
(* insurance_web.py                                                        *)
(* The records are those of insurance.csv as above: bmi in tenths, charges *)
(* in cents, and an average of charges is in cents after round(..., 2).    *)
(* Of the returned record the total, the smoker analysis and the four      *)
(* groupings are modelled; the averages of the summary, the sex analysis   *)
(* and the insights are left out, except that the insights raise           *)
(* ValueError (max of an empty sequence) when the file has no record.      *)
(***************************************************************************)
\* records an insurance.csv may hold, with a smoker cell other than yes/no
WebRows ==
    { [age |-> 30, sex |-> "female", bmi |-> 184, children |-> 0, smoker |-> "yes",
       region |-> "southwest", charges |-> 1688492],
      [age |-> 31, sex |-> "male", bmi |-> 185, children |-> 1, smoker |-> "no",
       region |-> "southeast", charges |-> 172556],
      [age |-> 40, sex |-> "male", bmi |-> 249, children |-> 3, smoker |-> "no",
       region |-> "southeast", charges |-> 444946],
      [age |-> 41, sex |-> "female", bmi |-> 250, children |-> 0, smoker |-> "unknown",
       region |-> "northwest", charges |-> 2198448],
      [age |-> 50, sex |-> "male", bmi |-> 299, children |-> 0, smoker |-> "yes",
       region |-> "northeast", charges |-> 386676],
      [age |-> 51, sex |-> "female", bmi |-> 300, children |-> 1, smoker |-> "no",
       region |-> "northwest", charges |-> 375662],
      [age |-> 60, sex |-> "female", bmi |-> 338, children |-> 2, smoker |-> "Yes",
       region |-> "southwest", charges |-> 824060],
      [age |-> 61, sex |-> "male", bmi |-> 279, children |-> 1, smoker |-> "no",
       region |-> "northeast", charges |-> 2880824] }

WebFiles == UNION {[1..n -> WebRows] : n \in 0..MaxRows}

NoWebResult == [kind |-> "none"]

\* the charges of the records that pass the test, in file order
ChargesWhere(rows, Test(_)) == Column(SelectSeq(rows, Test), "charges")

\* {'average': round(mean(charges), 2), 'count': len(charges)}, with
\* insurance_web.mean, which is 0 for an empty list
WebStats(charges) ==
    [average |-> IF Len(charges) = 0 THEN 0 ELSE RoundHalfEven(sum(charges), Len(charges)),
     count |-> Len(charges)]

\* (variant: the final else is missing, a bmi of 30 or more is in no category)
bmi_category_no_else(bmi) ==
    IF bmi < 185 THEN "Underweight"
    ELSE IF bmi < 250 THEN "Normal"
    ELSE IF bmi < 300 THEN "Overweight"
    ELSE "none"

\* the if/elif chain over bmi
bmi_category(bmi) ==
    IF bmi < 185 THEN "Underweight"
    ELSE IF bmi < 250 THEN "Normal"
    ELSE IF bmi < 300 THEN "Overweight"
    ELSE "Obese"

\* the if/elif chain over age
age_group(age) ==
    IF age <= 30 THEN "18-30"
    ELSE IF age <= 40 THEN "31-40"
    ELSE IF age <= 50 THEN "41-50"
    ELSE IF age <= 60 THEN "51-60"
    ELSE "60+"

\* str(num_kids)
str(num_kids) ==
    CASE num_kids = 0 -> "0" [] num_kids = 1 -> "1" [] num_kids = 2 -> "2"
      [] num_kids = 3 -> "3" [] num_kids = 4 -> "4" [] num_kids = 5 -> "5"

BmiCategories == {"Underweight", "Normal", "Overweight", "Obese"}
AgeGroups == {"18-30", "31-40", "41-50", "51-60", "60+"}

\* the statistics of the lists of the keys that got a charge appended
StatsOfKeys(rows, Key(_), keys) ==
    LET In(k) == LET Test(row) == Key(row) = k IN ChargesWhere(rows, Test)
    IN  [k \in {key \in keys : Len(In(key)) > 0} |-> WebStats(In(k))]

region_stats(rows) ==
    LET Key(row) == row.region
    IN  StatsOfKeys(rows, Key, {rows[i].region : i \in 1..Len(rows)})

bmi_stats(rows) ==
    LET Key(row) == bmi_category(row.bmi)
    IN  StatsOfKeys(rows, Key, BmiCategories)

age_group_stats(rows) ==
    LET Key(row) == age_group(row.age)
    IN  StatsOfKeys(rows, Key, AgeGroups)

children_stats(rows) ==
    LET Key(row) == str(row.children)
    IN  StatsOfKeys(rows, Key, {str(rows[i].children) : i \in 1..Len(rows)})

\* s == "yes" and s == "no"
IsYes(row) == row.smoker = "yes"
IsNo(row) == row.smoker = "no"

\* what insurance_web.analyze_insurance returns for the records of the file
WebResult(rows) ==
    IF Len(rows) = 0 THEN [kind |-> "ValueError"]
    ELSE [kind |-> "record",
          summary |-> [total_records |-> Len(rows)],
          smoker_analysis |-> [smoker |-> WebStats(ChargesWhere(rows, IsYes)),
                               non_smoker |-> WebStats(ChargesWhere(rows, IsNo))],
          region_analysis |-> region_stats(rows),
          bmi_analysis |-> bmi_stats(rows),
          age_group_analysis |-> age_group_stats(rows),
          children_analysis |-> children_stats(rows)]

\* insurance_web.analyze_insurance()
analyze_insurance ==
    /\ web_pc = "call"
    /\ web_result' = WebResult(csv)
    /\ web_pc' = "done"
    /\ UNCHANGED reports
    /\ UNCHANGED not_web_vars

(***************************************************************************)
(* The smoker analyses of insurance_analysis.py and of InsuranceDataset    *)
(* A report holds the two lists the analysis built; mean() of an empty     *)
(* list raises ZeroDivisionError. average_charges_by_smoker, of the module *)
(* and of the class, prints the count and the rounded average of each      *)
(* list, and its report holds them. print_summary prints neither: of the   *)
(* two lists it prints the difference of the means only, so its report     *)
(* holds the lists alone. The differences, the percentages and the region  *)
(* and BMI findings that are printed are left out.                         *)
(***************************************************************************)
NoReport == [kind |-> "none"]

\* [c for s, c in zip(statuses, charges) if Test(s)]
ZipWhere(statuses, charges, Test(_)) ==
    LET n == IF Len(statuses) < Len(charges) THEN Len(statuses) ELSE Len(charges)
        Kept(i) == Test(statuses[i])
        kept == SelectSeq([i \in 1..n |-> i], Kept)
    IN  [j \in 1..Len(kept) |-> charges[kept[j]]]

Yes(status) == status = "yes"
No(status) == status = "no"
NotYes(status) == status # "yes"

\* {count, average} as printed: len(charges) and round(mean(charges), 2)
Printed(charges) ==
    [count |-> Len(charges), average |-> RoundHalfEven(sum(charges), Len(charges))]

\* what an analysis reports of the two lists it built
SmokerReport(smoker_charges, non_smoker_charges) ==
    IF Len(smoker_charges) = 0 \/ Len(non_smoker_charges) = 0
    THEN [kind |-> "ZeroDivisionError",
          smoker_charges |-> smoker_charges, non_smoker_charges |-> non_smoker_charges]
    ELSE [kind |-> "printed",
          smoker_charges |-> smoker_charges, non_smoker_charges |-> non_smoker_charges,
          smoker |-> Printed(smoker_charges), non_smoker |-> Printed(non_smoker_charges)]

\* what print_summary makes of the two lists it built: mean() of each, and
\* no count and no average printed
SummaryReport(smoker_charges, non_smoker_charges) ==
    IF Len(smoker_charges) = 0 \/ Len(non_smoker_charges) = 0
    THEN [kind |-> "ZeroDivisionError",
          smoker_charges |-> smoker_charges, non_smoker_charges |-> non_smoker_charges]
    ELSE [kind |-> "printed",
          smoker_charges |-> smoker_charges, non_smoker_charges |-> non_smoker_charges]

\* the lists of print_summary: s == "yes" and s == "no"
SummaryOf(statuses, charges) ==
    SummaryReport(ZipWhere(statuses, charges, Yes), ZipWhere(statuses, charges, No))

\* the lists of average_charges_by_smoker: if status == "yes" ... else
ByElse(statuses, charges) ==
    SmokerReport(ZipWhere(statuses, charges, Yes), ZipWhere(statuses, charges, NotYes))

\* the lists of InsuranceDataset.average_charges_by_smoker: status == "yes"
\* and status == "no"
ByYesNo(statuses, charges) ==
    SmokerReport(ZipWhere(statuses, charges, Yes), ZipWhere(statuses, charges, No))

\* insurance_analysis.average_charges_by_smoker()
average_charges_by_smoker ==
    /\ reports' = [reports EXCEPT !.average_charges_by_smoker =
                      ByElse(smoker_statuses, insurance_charges)]
    /\ UNCHANGED <<web_pc, web_result>>
    /\ UNCHANGED not_web_vars

\* insurance_analysis.print_summary()
print_summary ==
    /\ reports' = [reports EXCEPT !.print_summary =
                      SummaryOf(smoker_statuses, insurance_charges)]
    /\ UNCHANGED <<web_pc, web_result>>
    /\ UNCHANGED not_web_vars

\* InsuranceDataset.average_charges_by_smoker()
InsuranceDataset_average_charges_by_smoker ==
    /\ self_loads >= 1
    /\ reports' = [reports EXCEPT !.InsuranceDataset =
                      ByYesNo(self.smoker_statuses, self.insurance_charges)]
    /\ UNCHANGED <<web_pc, web_result>>
    /\ UNCHANGED not_web_vars

WebIdle ==
    /\ web_pc = "call"
    /\ web_result = NoWebResult
    /\ reports = [average_charges_by_smoker |-> NoReport, print_summary |-> NoReport,
                  InsuranceDataset |-> NoReport]

(***************************************************************************)
(* medical_system.py                                                       *)
(* A patient is a JSON object that may lack its age. Of the returned       *)
(* record the summary, the diagnosis distribution and the age distribution *)
(* are modelled; the medications and the vital signs are left out.         *)
(***************************************************************************)
MaxPatients == 2

PatientAges == {17, 18, 30, 31, 45, 46, 60, 61}
PatientRecords ==
    {[age |-> a, diagnosis |-> "Flu"] : a \in PatientAges}
    \cup {[diagnosis |-> "Asthma"]}
PatientLists == UNION {[1..n -> PatientRecords] : n \in 0..MaxPatients}

\* p.get('age', 0)
get_age(p) == IF "age" \in DOMAIN p THEN p.age ELSE 0

\* the key of age_groups the if/elif chain adds 1 to, if any
age_bucket(age) ==
    IF 18 <= age /\ age <= 30 THEN <<"18-30">>
    ELSE IF 31 <= age /\ age <= 45 THEN <<"31-45">>
    ELSE IF 46 <= age /\ age <= 60 THEN <<"46-60">>
    ELSE IF age > 60 THEN <<"60+">>
    ELSE <<>>

\* age_groups after the loop over the patients
age_groups(list) ==
    [group \in {"18-30", "31-45", "46-60", "60+"} |->
        Cardinality({i \in 1..Len(list) : age_bucket(get_age(list[i])) = <<group>>})]

\* diagnosis_dist after the loop over the patients
diagnosis_dist(list) ==
    [diag \in {list[i].diagnosis : i \in 1..Len(list)} |->
        Cardinality({i \in 1..Len(list) : list[i].diagnosis = diag})]

\* what analyze_medical_records returns for the list of patients; the
\* average age is in tenths
MedResult(list) ==
    IF Len(list) = 0 THEN [kind |-> "error", error |-> "No medical records available"]
    ELSE [kind |-> "record",
          summary |-> [total_patients |-> Len(list),
                       average_age |->
                           RoundHalfEven(10 * sum([i \in 1..Len(list) |-> get_age(list[i])]),
                                         Len(list))],
          diagnosis_distribution |-> diagnosis_dist(list),
          age_distribution |-> age_groups(list),
          all_patients |-> list]

\* data = load_medical_data(); patients = data.get('patients', [])
load_medical_data ==
    /\ med_pc = "call"
    /\ patients' \in PatientLists
    /\ med_pc' = "loaded"
    /\ UNCHANGED med_result
    /\ UNCHANGED not_med_vars

\* the rest of analyze_medical_records
analyze_medical_records ==
    /\ med_pc = "loaded"
    /\ med_result' = MedResult(patients)
    /\ med_pc' = "done"
    /\ UNCHANGED patients
    /\ UNCHANGED not_med_vars

MedIdle ==
    /\ patients = <<>>
    /\ med_pc = "call"
    /\ med_result = [kind |-> "none"]

\* none of the statistics scripts and of the tools has run
StatIdle ==
    /\ StuIdle /\ AbIdle /\ BioIdle /\ FamIdle
    /\ CipherIdle /\ MenuIdle /\ WebIdle /\ MedIdle

\* the state in which find_best_line(pts, mr, br, st) is about to be called
FitCall(pts, mr, br, st) ==
    /\ points = pts
    /\ m_range = mr
    /\ b_range = br
    /\ step = st
    /\ pc = "call"
    /\ possible_ms = <<0, 0>>
    /\ possible_bs = <<0, 0>>
    /\ m_i = 0
    /\ b_i = 0
    /\ smallest_error = Inf
    /\ best_m = FInt(0)
    /\ best_b = FInt(0)
    /\ result = NoResult
    /\ calls = 1
    /\ first_call = NoCall
    /\ r_squared = 0

(***************************************************************************)
(* Specifications                                                          *)
(***************************************************************************)
MaxPoints == 2
MaxX == 1

XVals == 0..MaxX
\* y values: 0, 0.004, 1 and 3
YVals == {0, 4, 1000, 3000}
PointLists == UNION {[1..n -> XVals \X YVals] : n \in 0..MaxPoints}
\* slopes -0.1..0.2, none (lower > upper), 0.1..0.3 (int(1.5) = 1)
MRanges == {<<-10, 20>>, <<20, 0>>, <<15, 30>>}
\* intercepts -0.1..0.1 (int(-1.5) = -1), none (lower > upper)
BRanges == {<<-15, 10>>, <<10, 0>>}
Steps == {0, 10, 20}

\* Spec: one call of find_best_line on any of the small inputs, and the
\* R-squared of the line it returns
Init ==
    /\ \E pts \in PointLists, mr \in MRanges, br \in BRanges, st \in Steps :
           FitCall(pts, mr, br, st)
    /\ InsIdle(<<>>)
    /\ StatIdle

Next ==
    \/ find_best_line_enter
    \/ find_best_line_iter
    \/ find_best_line_return
    \/ analyze_r_squared

Spec == Init /\ [][Next]_vars

\* SpecCalls: up to MaxCalls calls of find_best_line in a row, each on any of
\* a few argument lists
CallArgs ==
    [points : { <<>>, << <<0, 0>>, <<1, 1000>> >>, << <<0, 4>>, <<0, 1000>> >> },
     m_range : {<<-10, 20>>, <<20, 0>>}, b_range : {<<-15, 10>>}, step : {10, 20}]

CallsInit ==
    /\ \E a \in CallArgs : FitCall(a.points, a.m_range, a.b_range, a.step)
    /\ InsIdle(<<>>)
    /\ StatIdle

CallsNext ==
    \/ find_best_line_enter
    \/ find_best_line_iter
    \/ find_best_line_return
    \/ find_best_line_again(CallArgs)

SpecCalls == CallsInit /\ [][CallsNext]_vars

\* SpecDefault: find_best_line with the defaults of its signature, on the
\* datapoints of analyze_linear_regression and on the points of y = 2x + 1,
\* then the R-squared; analyze_linear_regression may be called MaxRuns times
DefaultInit ==
    /\ \E pts \in {Datapoints, LinePoints} :
           FitCall(pts, DefaultMRange, DefaultBRange, DefaultStep)
    /\ InsIdle(<<>>)
    /\ StatIdle

DefaultNext ==
    \/ find_best_line_enter
    \/ find_best_line_iter
    \/ find_best_line_return
    \/ analyze_r_squared
    \/ analyze_linear_regression_again

SpecDefault == DefaultInit /\ [][DefaultNext]_vars

\* SpecAnalyze: analyze_linear_regression alone, called MaxRuns times
AnalyzeInit ==
    /\ FitCall(Datapoints, DefaultMRange, DefaultBRange, DefaultStep)
    /\ InsIdle(<<>>)
    /\ StatIdle

AnalyzeNext ==
    \/ find_best_line_enter
    \/ find_best_line_iter
    \/ find_best_line_return
    \/ analyze_r_squared
    \/ analyze_linear_regression_again

SpecAnalyze == AnalyzeInit /\ [][AnalyzeNext]_vars

\* SpecLoad: the insurance loaders, called any number of times over one file
LoadInit ==
    /\ FitCall(<<>>, DefaultMRange, DefaultBRange, DefaultStep)
    /\ \E file \in CsvFiles : InsIdle(file)
    /\ StatIdle

LoadNext ==
    \/ load_data
    \/ InsuranceDataset_init
    \/ InsuranceDataset_load_data

SpecLoad == LoadInit /\ [][LoadNext]_vars


\* analyze_students on every list of StudentLists
StudentsInit ==
    /\ FitCall(<<>>, DefaultMRange, DefaultBRange, DefaultStep)
    /\ InsIdle(<<>>)
    /\ StatIdle

StudentsNext ==
    \/ generate_sample_student_data
    \/ analyze_students

SpecStudents == StudentsInit /\ [][StudentsNext]_vars

\* the median_grade expression on every list of 1..MaxGrades grades
MedianInit ==
    /\ FitCall(<<>>, DefaultMRange, DefaultBRange, DefaultStep)
    /\ InsIdle(<<>>)
    /\ AbIdle /\ BioIdle /\ FamIdle /\ CipherIdle /\ MenuIdle /\ WebIdle /\ MedIdle
    /\ StudentsIdle
    /\ grade_list \in GradeLists
    /\ grade_median = <<>>

MedianNext == median_grade_of_list

SpecMedian == MedianInit /\ [][MedianNext]_vars

\* analyze_ab_test on every dataset of AbDatasets
AbInit ==
    /\ FitCall(<<>>, DefaultMRange, DefaultBRange, DefaultStep)
    /\ InsIdle(<<>>)
    /\ StatIdle

AbNext ==
    \/ load_ab_test_data
    \/ analyze_ab_test

SpecAb == AbInit /\ [][AbNext]_vars

\* analyze_biodiversity on every table of SpeciesTables
BioInit ==
    /\ FitCall(<<>>, DefaultMRange, DefaultBRange, DefaultStep)
    /\ InsIdle(<<>>)
    /\ StatIdle

BioNext ==
    \/ load_biodiversity_data
    \/ analyze_biodiversity

SpecBio == BioInit /\ [][BioNext]_vars

\* analyze_familiar on every pair of tables
FamInit ==
    /\ FitCall(<<>>, DefaultMRange, DefaultBRange, DefaultStep)
    /\ InsIdle(<<>>)
    /\ StatIdle

FamNext ==
    \/ load_familiar_data
    \/ analyze_familiar

SpecFam == FamInit /\ [][FamNext]_vars

\* SpecCipher: a text is encrypted, and the answer decrypted
CipherInit ==
    /\ FitCall(<<>>, DefaultMRange, DefaultBRange, DefaultStep)
    /\ InsIdle(<<>>)
    /\ StatIdle

CipherNext ==
    \/ encrypt_text
    \/ decrypt_text

SpecCipher == CipherInit /\ [][CipherNext]_vars

\* SpecMenu: main() of main.py reads up to MaxInputs lines
MenuInit ==
    /\ FitCall(<<>>, DefaultMRange, DefaultBRange, DefaultStep)
    /\ InsIdle(<<>>)
    /\ StatIdle

MenuNext ==
    \/ main_choice
    \/ main_enter

SpecMenu == MenuInit /\ [][MenuNext]_vars

\* SpecWeb: insurance_web.analyze_insurance over an insurance.csv
WebInit ==
    /\ FitCall(<<>>, DefaultMRange, DefaultBRange, DefaultStep)
    /\ \E file \in WebFiles : InsIdle(file)
    /\ StatIdle

WebNext == analyze_insurance

SpecWeb == WebInit /\ [][WebNext]_vars

\* SpecSmoker: the module and the class load the file, and the four smoker
\* analyses run over what they hold
SmokerNext ==
    \/ load_data
    \/ InsuranceDataset_init
    \/ average_charges_by_smoker
    \/ print_summary
    \/ InsuranceDataset_average_charges_by_smoker
    \/ analyze_insurance

SpecSmoker == WebInit /\ [][SmokerNext]_vars

\* SpecMed: analyze_medical_records over a list of patients
MedInit ==
    /\ FitCall(<<>>, DefaultMRange, DefaultBRange, DefaultStep)
    /\ InsIdle(<<>>)
    /\ StatIdle

MedNext ==
    \/ load_medical_data
    \/ analyze_medical_records

SpecMed == MedInit /\ [][MedNext]_vars

(***************************************************************************)
(* Properties                                                              *)
(***************************************************************************)
Returned == pc \in {"done", "analyzed"}

\* the candidates find_best_line enumerates, as pairs of range() integers
InGrid(g) == /\ g[1] \in possible_ms[1]..possible_ms[2]
             /\ g[2] \in possible_bs[1]..possible_bs[2]
Grid == {<<k, kb>> : k \in possible_ms[1]..possible_ms[2],
                     kb \in possible_bs[1]..possible_bs[2]}

\* sum(|m*x_i + b - y_i|) in the rationals, in thousandths, for m = g[1]/10
\* and b = g[2]/10
RECURSIVE ExactErrorFrom(_, _, _)
ExactErrorFrom(g, pts, i) ==
    IF i > Len(pts) THEN 0
    ELSE Abs((D \div 10) * g[1] * pts[i][1] + (D \div 10) * g[2] - pts[i][2])
         + ExactErrorFrom(g, pts, i + 1)
ExactError(g) == ExactErrorFrom(g, points, 1)

\* the float the code computes for the same candidate
ComputedError(g) == calculate_all_error(FDivTen(g[1]), FDivTen(g[2]), points)

\* the candidate the returned record names
BestPoint == <<result.best_m \div 10, result.best_b \div 10>>
NamesCandidate == /\ result.kind = "record"
                  /\ result.best_m % 10 = 0
                  /\ result.best_b % 10 = 0
                  /\ InGrid(BestPoint)

\* g comes no later than h in the enumeration (slopes outer, intercepts inner)
EnumeratedBefore(g, h) == g[1] < h[1] \/ (g[1] = h[1] /\ g[2] <= h[2])

\* C1 (as claimed): on a non-empty grid the returned (best_m, best_b) is a
\* grid point of minimal total absolute error, and smallest_error equals
\* that minimum.
C1_SmallestErrorIsMinimum ==
    (Returned /\ Grid # {}) =>
        /\ NamesCandidate
        /\ \A h \in Grid : ExactError(BestPoint) <= ExactError(h)
        /\ ~result.inf
        /\ 10 * result.smallest_error = ExactError(BestPoint)

\* C1 (amended): on a non-empty grid whose computed errors are finite the
\* returned (best_m, best_b) is a grid point whose total absolute error as
\* calculate_all_error computes it in floating point is the minimum of the
\* computed errors of the grid points, and smallest_error is that computed
\* minimum rounded to two decimals.
C1_SmallestErrorIsRoundedMinimum ==
    (Returned /\ Grid # {}) =>
        /\ NamesCandidate
        /\ \A h \in Grid : ~FLt(ComputedError(h), ComputedError(BestPoint))
        /\ ~result.inf
        /\ result.smallest_error = Round2(ComputedError(BestPoint))

\* a search over at least nine candidates has returned; a candidate of the
\* same error as a real number has a greater computed error than the one
\* returned, another has a greater error as a real number, and the reported
\* error is not the minimum
C1_Witness ==
    /\ Returned
    /\ Len(points) = 2
    /\ Cardinality(Grid) >= 9
    /\ NamesCandidate
    /\ \E h \in Grid : /\ ExactError(h) = ExactError(BestPoint)
                       /\ FLt(ComputedError(BestPoint), ComputedError(h))
    /\ \E h \in Grid : ExactError(h) > ExactError(BestPoint)
    /\ 10 * result.smallest_error # ExactError(BestPoint)

\* C2 (as claimed): when several grid points have the same minimal total
\* error, the first of them in enumeration order is returned.
C2_FirstOfEqualErrors ==
    (Returned /\ Grid # {}) =>
        /\ NamesCandidate
        /\ \A h \in Grid : ExactError(h) <= ExactError(BestPoint)
                              => EnumeratedBefore(BestPoint, h)

\* C2 (amended): the returned grid point is the first, in enumeration order,
\* of those whose total error as computed in floating point is minimal (a
\* later point replaces the best only if its computed error is strictly
\* lower).
C2_FirstOfEqualComputedErrors ==
    (Returned /\ Grid # {}) =>
        /\ NamesCandidate
        /\ \A h \in Grid : /\ ~FLt(ComputedError(h), ComputedError(BestPoint))
                           /\ ComputedError(h) = ComputedError(BestPoint)
                                 => EnumeratedBefore(BestPoint, h)

\* two candidates have the minimal computed error of a list of two points,
\* and the earlier one was returned
C2_Witness ==
    /\ Returned
    /\ Len(points) = 2
    /\ NamesCandidate
    /\ \E h \in Grid : /\ h # BestPoint
                       /\ ComputedError(h) = ComputedError(BestPoint)
                       /\ ExactError(h) > 0

\* the decimal value of the candidate k/10, in hundredths
Candidate(k) == FDivTen(k).n \div (D \div 100)

\* C3: consecutive candidate slopes, and consecutive candidate intercepts,
\* are exactly step apart.
C3_GridSpacingIsStep ==
    (pc # "call") =>
        /\ \A k \in possible_ms[1]..(possible_ms[2] - 1) :
               Candidate(k + 1) - Candidate(k) = step
        /\ \A k \in possible_bs[1]..(possible_bs[2] - 1) :
               Candidate(k + 1) - Candidate(k) = step

\* C4: a call with fewer than 2 points fails with an insufficient-data error
\* and returns no fit result.
C4_TooFewPointsFail ==
    (Returned /\ Len(points) < 2) => result.kind = "InsufficientDataError"

InvalidConfiguration ==
    \/ step <= 0
    \/ m_range[1] > m_range[2]
    \/ b_range[1] > b_range[2]

\* C5: a call with step <= 0 or a range whose lower bound exceeds its upper
\* bound fails with a configuration error; it returns no record.
C5_InvalidConfigurationFails ==
    (Returned /\ InvalidConfiguration) => result.kind = "ConfigurationError"

\* C6: on the points (x, 2x+1), x in 1..5, with the default grid the result
\* is best_m = 2.0, best_b = 1.0, smallest_error = 0, and R-squared is 1.0.
C6_LineRoundTrip ==
    (points = LinePoints /\ Returned) =>
        /\ result = [kind |-> "record", best_m |-> 200, best_b |-> 100,
                     smallest_error |-> 0, inf |-> FALSE]
        /\ pc = "analyzed" => r_squared = 1000

C6_Witness ==
    /\ points = LinePoints
    /\ m_range = DefaultMRange /\ b_range = DefaultBRange
    /\ pc = "analyzed"
    /\ Cardinality(Grid) = 201 * 401

\* the 8 neighbours of a candidate
Neighbours(g) == {<<g[1] + i, g[2] + j>> : i \in {-1, 0, 1}, j \in {-1, 0, 1}} \ {g}

\* C7: on the datapoints of analyze_linear_regression with the default grid,
\* every call returns the same record, and none of the 8 neighbouring grid
\* points of the returned one has a strictly lower total error.
C7_DeterministicLocalMinimum ==
    (points = Datapoints /\ Returned) =>
        /\ calls > 1 => result = first_call.result
        /\ NamesCandidate
        /\ \A h \in Neighbours(BestPoint) :
               InGrid(h) => /\ ExactError(h) >= ExactError(BestPoint)
                            /\ ~FLt(ComputedError(h), ComputedError(BestPoint))

\* the second call on the datapoints has returned a point with all its 8
\* neighbours on the grid
C7_Witness ==
    /\ points = Datapoints
    /\ Returned
    /\ calls = 2
    /\ NamesCandidate
    /\ \A h \in Neighbours(BestPoint) : InGrid(h)

\* len * SS_tot and len * SS_res of the returned line, in units of 10^-6:
\* len * sum(y^2) - sum(y)^2, and len * sum((y - (best_m * x + best_b))^2)
RECURSIVE SumSquares(_, _)
SumSquares(pts, i) ==
    IF i > Len(pts) THEN 0 ELSE pts[i][2] * pts[i][2] + SumSquares(pts, i + 1)
RECURSIVE SumSquaredResiduals(_, _)
SumSquaredResiduals(pts, i) ==
    IF i > Len(pts) THEN 0
    ELSE LET d == pts[i][2] - 10 * (result.best_m * pts[i][1] + result.best_b)
         IN  d * d + SumSquaredResiduals(pts, i + 1)
LenSSTot == Len(points) * SumSquares(points, 1) - SumY(points, 1) * SumY(points, 1)
LenSSRes == Len(points) * SumSquaredResiduals(points, 1)
\* (SS_tot - SS_res) / SS_tot in lowest terms
R2Num == (LenSSTot - LenSSRes) \div Gcd(LenSSTot, LenSSRes)
R2Den == LenSSTot \div Gcd(LenSSTot, LenSSRes)

\* C8 (as claimed): the reported R-squared equals 1 - SS_res/SS_tot, and is
\* 0 when SS_tot = 0.
C8_RSquaredIsFormula ==
    (pc = "analyzed") =>
        IF LenSSTot = 0 THEN r_squared = 0
        ELSE r_squared * R2Den = 1000 * R2Num

\* C8 (amended): the reported R-squared is 1 - SS_res/SS_tot rounded to three
\* decimals (within 0.0005 of it), and is 0 when SS_tot = 0.
C8_RSquaredIsRoundedFormula ==
    (pc = "analyzed") =>
        IF LenSSTot = 0 THEN r_squared = 0
        ELSE 2 * Abs(r_squared * R2Den - 1000 * R2Num) <= R2Den

\* R-squared was computed for points of equal y off the returned line
C8_Witness ==
    /\ pc = "analyzed"
    /\ Len(points) = 2
    /\ Grid # {}
    /\ LenSSTot = 0
    /\ LenSSRes > 0
    /\ r_squared = 0

\* C9: a call with the arguments of the first call returns the record the
\* first call returned, whatever was called in between, and a call leaves
\* the caller's list of points as it is.
C9_CallsAreIndependent ==
    /\ []((Returned /\ Args = first_call.args) => result = first_call.result)
    /\ [][(pc \in {"call", "loop", "return"}) => (points' = points)]_vars

\* the third call, with the arguments of the first, has returned
C9_Witness ==
    /\ Returned
    /\ calls = 3
    /\ Args = first_call.args
    /\ Len(points) = 2
    /\ Grid # {}

\* the lists hold each record of the file exactly once
HoldsFileOnce(lists) ==
    /\ Len(lists.ages) = Len(csv)
    /\ \A i \in 1..Len(csv) :
           /\ lists.ages[i] = csv[i].age
           /\ lists.sexes[i] = csv[i].sex
           /\ lists.bmis[i] = csv[i].bmi
           /\ lists.num_children[i] = csv[i].children
           /\ lists.smoker_statuses[i] = csv[i].smoker
           /\ lists.regions[i] = csv[i].region
           /\ lists.insurance_charges[i] = csv[i].charges

\* C10: after any number n >= 1 of calls of load_data() (module or instance)
\* the dataset holds each record of the file exactly once, so the record
\* count and every mean (of a file that has records) are those of a single
\* call.
C10_LoadIsIdempotent ==
    /\ module_loads >= 1 =>
           /\ HoldsFileOnce(ModuleLists)
           /\ Len(csv) > 0 =>
                  /\ SameMean(mean(insurance_charges), mean(Column(csv, "charges")))
                  /\ SameMean(mean(ages), mean(Column(csv, "age")))
    /\ self_loads >= 1 =>
           /\ HoldsFileOnce(self)
           /\ Len(csv) > 0 =>
                  /\ SameMean(mean(self.insurance_charges), mean(Column(csv, "charges")))
                  /\ SameMean(mean(self.ages), mean(Column(csv, "age")))

(***************************************************************************)
(* Properties of student_analysis.py                                       *)
(***************************************************************************)
StudentsDone == student_pc = "done" /\ student_result.kind = "record"
Grades == [i \in 1..Len(students) |-> students[i].math_grade]
Absences == [i \in 1..Len(students) |-> students[i].absences]

\* the k-th order statistic of a list: the value v with fewer than k
\* elements below it and at least k elements not above it
OrderStatistic(values, k) ==
    CHOOSE v \in {values[i] : i \in 1..Len(values)} :
        /\ Cardinality({i \in 1..Len(values) : values[i] < v}) < k
        /\ Cardinality({i \in 1..Len(values) : values[i] <= v}) >= k

\* C11: median_grade is the middle order statistic of the grades when their
\* number is odd, and the average of the two middle order statistics when
\* it is even.
C11_MedianGradeIsMiddle ==
    grade_median # <<>> =>
        LET n == Len(grade_list)
        IN  IF n % 2 = 1
            THEN grade_median[1]
                     = 100 * OrderStatistic(grade_list, (n + 1) \div 2)
            ELSE 2 * grade_median[1]
                     = 100 * (OrderStatistic(grade_list, n \div 2)
                              + OrderStatistic(grade_list, n \div 2 + 1))

\* an even number of grades, out of order, with two different middle values
C11_Witness ==
    /\ grade_median # <<>>
    /\ Len(grade_list) = 4
    /\ grade_list[1] > grade_list[2]
    /\ grade_list[2] = grade_list[3]
    /\ grade_list[3] < grade_list[4]
    /\ grade_list[4] < grade_list[1]
    /\ grade_median[1] = 50 * (grade_list[2] + grade_list[4])

\* C12: over an even number of absences the reported median is the average
\* of the two middle order statistics.
C12_AbsencesMedianIsAverage ==
    (StudentsDone /\ Len(Absences) % 2 = 0) =>
        2 * student_result.absences_summary.median
            = OrderStatistic(Absences, Len(Absences) \div 2)
              + OrderStatistic(Absences, Len(Absences) \div 2 + 1)

\* C13: std_grade is the sample standard deviation, the root of the sum of
\* squared deviations over n - 1: with S = n * sum(x^2) - sum(x)^2 it is the
\* h, in hundredths, nearest to 100 * sqrt(S / (n * (n - 1))).
C13_StdGradeIsSampleStd ==
    (StudentsDone /\ Len(Grades) >= 2) =>
        LET n == Len(Grades)
            S == n * SumOfSquares(Grades) - sum(Grades) * sum(Grades)
            h == student_result.std_grade
            g == Gcd(40000, n * (n - 1))
            den == (n * (n - 1)) \div g
            num == (40000 \div g) * S
        IN  /\ h > 0 => (2 * h - 1) * (2 * h - 1) * den <= num
            /\ num < (2 * h + 1) * (2 * h + 1) * den

Occurrences(values, v) == Cardinality({i \in 1..Len(values) : values[i] = v})
FirstOccurrence(values, v) ==
    CHOOSE i \in 1..Len(values) :
        values[i] = v /\ \A j \in 1..(i - 1) : values[j] # v

\* C14: mode_grade is a grade of maximal frequency, and of the grades of
\* maximal frequency it is the one that occurs first in the list.
C14_ModeIsFirstMostFrequent ==
    StudentsDone =>
        /\ \E i \in 1..Len(Grades) : Grades[i] = student_result.mode_grade
        /\ \A i \in 1..Len(Grades) :
               /\ Occurrences(Grades, Grades[i])
                      <= Occurrences(Grades, student_result.mode_grade)
               /\ Occurrences(Grades, Grades[i])
                      = Occurrences(Grades, student_result.mode_grade)
                  => FirstOccurrence(Grades, student_result.mode_grade)
                         <= FirstOccurrence(Grades, Grades[i])

\* two grades tie for the largest frequency and the larger one comes first
C14_Witness ==
    /\ StudentsDone
    /\ Grades[1] > Grades[Len(Grades)]
    /\ Occurrences(Grades, Grades[1]) = Occurrences(Grades, Grades[Len(Grades)])
    /\ 2 * Occurrences(Grades, Grades[1]) = Len(Grades)
    /\ student_result.mode_grade = Grades[1]

(***************************************************************************)
(* Properties of ab_test_analysis.py                                       *)
(***************************************************************************)
AbDone == ab_pc = "done"
AbReturned == AbDone /\ ab_result.kind = "record"
RowsOf(g) == {i \in 1..Len(abdata) : abdata[i].group = g}
RowsWith(p) == {i \in 1..Len(abdata) : abdata[i].is_purchase = p}
GroupsPresent == {abdata[i].group : i \in 1..Len(abdata)}
PurchasesPresent == {abdata[i].is_purchase : i \in 1..Len(abdata)}

\* C15: when group A or group B has no rows, analyze_ab_test does not
\* return a conversion_rate of 0 for it.
C15_EmptyGroupHasNoZeroRate ==
    AbReturned =>
        /\ RowsOf("A") = {} => ab_result.group_a.conversion_rate # 0
        /\ RowsOf("B") = {} => ab_result.group_b.conversion_rate # 0

\* C17: the significance flag equals (p_value < alpha) for the alpha of the
\* caller, whichever level of Alphas the caller chooses.
C17_FlagFollowsCallerAlpha ==
    AbReturned =>
        \A alpha \in Alphas :
            ab_result.statistical_test.significant
                = (alpha \in ab_result.statistical_test.p_below)

\* C18: for every dataset the cells of the returned contingency table are
\* non-negative integers, the cells of a group add up to the users of the
\* group, which are the rows of the group, and the yes cells add up to the
\* purchases in the groups A and B.
C18_TableTotalsAreMarginals ==
    AbReturned =>
        LET t == ab_result.contingency_table
        IN  /\ {t.group_a.yes, t.group_a.no, t.group_b.yes, t.group_b.no} \subseteq Nat
            /\ t.group_a.yes + t.group_a.no = ab_result.group_a.users
            /\ t.group_b.yes + t.group_b.no = ab_result.group_b.users
            /\ ab_result.group_a.users = Cardinality(RowsOf("A"))
            /\ ab_result.group_b.users = Cardinality(RowsOf("B"))
            /\ t.group_a.yes + t.group_b.yes
                   = Cardinality((RowsOf("A") \cup RowsOf("B")) \cap RowsWith("Yes"))

\* C19: when the data has one group only, or one value of is_purchase only,
\* analyze_ab_test fails with an error and returns no record, so no chi2,
\* p_value or significance flag.
C19_DegenerateTableFails ==
    (AbDone /\ (Cardinality(GroupsPresent) = 1 \/ Cardinality(PurchasesPresent) = 1)) =>
        ab_result.kind # "record"

(***************************************************************************)
(* Properties of biodiversity_analysis.py                                  *)
(***************************************************************************)
BioDone == bio_pc = "done"
CategoriesPresent == {species[i].category : i \in 1..Len(species)}
ProtectedIn(category) ==
    Cardinality({i \in 1..Len(species) : /\ species[i].category = category
                                         /\ species[i].conservation_status # "No Intervention"})
UnprotectedIn(category) ==
    Cardinality({i \in 1..Len(species) : /\ species[i].category = category
                                         /\ species[i].conservation_status = "No Intervention"})

\* the test of two categories cannot be computed: a column of their 2x2
\* table is empty, so an expected count is 0
Uncomputable(cat1, cat2) ==
    \/ ProtectedIn(cat1) + ProtectedIn(cat2) = 0
    \/ UnprotectedIn(cat1) + UnprotectedIn(cat2) = 0

\* C16: when the chi-square test of a pair of categories cannot be computed,
\* analyze_biodiversity does not return a normal result (whose
\* chi_square_results lacks the pair).
C16_FailedPairIsSurfaced ==
    (BioDone /\ \E cat1 \in CategoriesPresent, cat2 \in CategoriesPresent :
                    cat1 # cat2 /\ Uncomputable(cat1, cat2))
        => bio_result.kind # "record"

(***************************************************************************)
(* Properties of familiar_analysis.py                                      *)
(***************************************************************************)
FamDone == fam_pc = "done"
Observations(pack) == {i \in 1..Len(lifespans) : lifespans[i].pack = pack}

\* C20: when the vein or the artery sample has fewer than 2 observations,
\* analyze_familiar returns no lifespan_test record: the test fails.
C20_SmallSampleFails ==
    (FamDone /\ (Cardinality(Observations("vein")) < 2
                 \/ Cardinality(Observations("artery")) < 2))
        => fam_result.kind # "record"

(***************************************************************************)
(* Properties of the tables the loaders return                             *)
(***************************************************************************)
\* C21: between the loader's return and the end of analyze_ab_test /
\* analyze_biodiversity the table is unchanged: no column is added, replaced
\* or removed and the rows stay as loaded.
C21_DatasetIsReadOnly ==
    [][/\ ab_pc = "loaded" => abdata' = abdata
       /\ bio_pc = "loaded" => species' = species]_vars

(***************************************************************************)
(* Properties of analyze_linear_regression's fit                           *)
(***************************************************************************)
\* find_best_line(datapoints) of analyze_linear_regression has returned
DefaultFitReturned ==
    /\ Returned
    /\ points = Datapoints
    /\ m_range = DefaultMRange
    /\ b_range = DefaultBRange

\* the candidates of exact total error 5.0, and no candidate is below it
ExactFive == {g \in Grid : ExactError(g) <= 5 * D}
FourTied == {<<3, 17>>, <<4, 16>>, <<5, 15>>, <<6, 14>>}

\* C23 (as claimed): on the hard-coded datapoints the fit reports
\* best_m = 0.3, best_b = 1.7, smallest_error = 5.0; exactly four grid points
\* tie at the minimal total error 5.0 and the one of smallest slope is
\* returned.
C23_DefaultFitIsSmallestSlope ==
    DefaultFitReturned =>
        /\ ExactFive = FourTied
        /\ \A g \in FourTied : ExactError(g) = 5 * D
        /\ result.best_m = 30
        /\ result.best_b = 170
        /\ result.smallest_error = 500

\* C23 (amended): on the hard-coded datapoints the fit reports best_m = 0.4,
\* best_b = 1.6, smallest_error = 5.0; exactly four grid points tie at the
\* exact minimal total error 5.0, the error computed in floating point for
\* (0.3, 1.7) is above the one computed for the other three, and the first
\* of those three in enumeration order is returned.
C23_DefaultFitIsFirstComputedMinimum ==
    DefaultFitReturned =>
        /\ ExactFive = FourTied
        /\ \A g \in FourTied : ExactError(g) = 5 * D
        /\ \A g \in FourTied \ {<<3, 17>>} :
               /\ ComputedError(g) = FInt(5)
               /\ FLt(ComputedError(g), ComputedError(<<3, 17>>))
        /\ result.best_m = 40
        /\ result.best_b = 160
        /\ result.smallest_error = 500

\* the search over the whole default grid has returned for the datapoints
C23_Witness ==
    /\ DefaultFitReturned
    /\ result.kind = "record"
    /\ Cardinality(Grid) = 201 * 401
    /\ ExactError(BestPoint) = 5 * D

\* C24: every candidate (m, b) that find_best_line enumerates lies inside the
\* caller's ranges: m_range[0] <= m <= m_range[1] and
\* b_range[0] <= b <= b_range[1], also for bounds that are not multiples of
\* 0.1.
C24_CandidatesInsideRanges ==
    (pc # "call") =>
        /\ \A k \in possible_ms[1]..possible_ms[2] :
               m_range[1] <= Candidate(k) /\ Candidate(k) <= m_range[2]
        /\ \A k \in possible_bs[1]..possible_bs[2] :
               b_range[1] <= Candidate(k) /\ Candidate(k) <= b_range[2]

(***************************************************************************)
(* Properties of the ciphers                                               *)
(***************************************************************************)
\* C25: decrypting the output of the encryption with the same cipher_type
\* and shift returns the original text, for every text, also one with
\* letters outside A-Z/a-z: encryption answers with a text, and its
\* decryption is the text that was posted.
C25_DecryptInvertsEncrypt ==
    /\ cipher_pc # "call" => encrypted.kind = "str"
    /\ cipher_pc = "decrypted" => decrypted = Str(text)

\* C26: caesar_cipher and atbash_cipher change only letters: the output has
\* the length of the input, a character that is not a letter is copied at
\* its position, and a letter is mapped to a letter of the same case.
C26_OnlyLettersChange ==
    (cipher_pc # "call" /\ cipher_type \in {"caesar", "atbash"}) =>
        /\ encrypted.kind = "str"
        /\ Len(encrypted.value) = Len(text)
        /\ \A i \in 1..Len(text) :
               IF isalpha(text[i])
               THEN /\ isalpha(encrypted.value[i])
                    /\ isupper(encrypted.value[i]) = isupper(text[i])
               ELSE encrypted.value[i] = text[i]

(***************************************************************************)
(* Properties of the menu loop                                             *)
(***************************************************************************)
MenuEnded == menu_pc \in {"exited", "EOFError"}
Five == <<"5">>
\* the line holds a 5 between spaces only
IsFive(entered) ==
    \E i \in 1..Len(entered) : /\ entered[i] = "5"
                               /\ \A j \in (1..Len(entered)) \ {i} : entered[j] = " "

\* C27 (as claimed): the loop ends exactly when a choice equal to '5' after
\* stripping is entered; any other choice runs at most one module, waits for
\* Enter and shows the menu again.
C27_LoopEndsOnlyOnFive ==
    [][/\ MenuEnded' <=> (menu_pc = "menu" /\ IsFive(line'))
       /\ (menu_pc = "menu" /\ ~IsFive(line')) =>
              (menu_pc' = "enter" /\ Len(runs') <= Len(runs) + 1)
       /\ menu_pc = "enter" => (menu_pc' = "menu" /\ runs' = runs)]_menu_vars

\* C27 (amended): the loop ends exactly when a choice equal to '5' after
\* stripping is entered, or when input() finds the input at its end
\* (EOFError, which main does not catch); any other choice runs at most one
\* module, however that module ends, then waits for Enter, and any line
\* entered there shows the menu again without running a module.
C27_LoopEndsOnFiveOrEndOfInput ==
    [][/\ menu_pc' = "exited" <=> (menu_pc = "menu" /\ IsFive(line'))
       /\ menu_pc' = "EOFError" <=> line' = EndOfInput
       /\ (menu_pc = "menu" /\ ~IsFive(line') /\ line' # EndOfInput) =>
              /\ menu_pc' = "enter"
              /\ Len(runs') <= Len(runs) + 1
              /\ SubSeq(runs', 1, Len(runs)) = runs
       /\ (menu_pc = "enter" /\ line' # EndOfInput) =>
              (menu_pc' = "menu" /\ runs' = runs)]_menu_vars

\* a module raised, Enter was pressed, and then ' 5 ' ended the loop
C27_Witness ==
    /\ menu_pc = "exited"
    /\ line = <<" ", "5", " ">>
    /\ reads = 3
    /\ Len(runs) = 1
    /\ runs[1].outcome = "Exception"

(***************************************************************************)
(* Properties of insurance_web.py and of the smoker analyses               *)
(***************************************************************************)
WebReturned == web_pc = "done" /\ web_result.kind = "record"

RECURSIVE SumOfCounts(_, _)
\* the sum of the counts of the keys of a grouping
SumOfCounts(stats, keys) ==
    IF keys = {} THEN 0
    ELSE LET k == CHOOSE key \in keys : TRUE
         IN  stats[k].count + SumOfCounts(stats, keys \ {k})
CountsOf(stats) == SumOfCounts(stats, DOMAIN stats)

\* C28: in the result of insurance_web.analyze_insurance the counts of
\* bmi_analysis sum to total_records, and so do those of age_group_analysis,
\* of region_analysis and of children_analysis.
C28_CountsSumToTotal ==
    WebReturned =>
        /\ CountsOf(web_result.bmi_analysis) = web_result.summary.total_records
        /\ CountsOf(web_result.age_group_analysis) = web_result.summary.total_records
        /\ CountsOf(web_result.region_analysis) = web_result.summary.total_records
        /\ CountsOf(web_result.children_analysis) = web_result.summary.total_records

\* a file of MaxRows records was analysed: an obese record and one of another
\* bmi category, of different age groups
C28_Witness ==
    /\ WebReturned
    /\ web_result.summary.total_records = Len(csv)
    /\ Len(csv) >= 2
    /\ "Obese" \in DOMAIN web_result.bmi_analysis
    /\ Cardinality(DOMAIN web_result.bmi_analysis) >= 2
    /\ Cardinality(DOMAIN web_result.age_group_analysis) >= 2

\* the module and the instance hold the file once and every analysis has run
\* over it
AllReported ==
    /\ module_loads = 1
    /\ self_loads = 1
    /\ web_pc = "done"
    /\ reports.average_charges_by_smoker = ByElse(smoker_statuses, insurance_charges)
    /\ reports.print_summary = SummaryOf(smoker_statuses, insurance_charges)
    /\ reports.InsuranceDataset = ByYesNo(self.smoker_statuses, self.insurance_charges)

\* C30: on every dataset the records average_charges_by_smoker treats as
\* non-smokers are those print_summary, InsuranceDataset and
\* insurance_web.analyze_insurance treat as non-smokers, and the non-smoker
\* count and average they report are the same.
C30_SmokerAnalysesAgree ==
    AllReported =>
        /\ \A name \in DOMAIN reports :
               /\ reports[name].non_smoker_charges
                      = reports.average_charges_by_smoker.non_smoker_charges
               /\ reports[name].kind = reports.average_charges_by_smoker.kind
        /\ web_result.kind = "record" =>
               /\ web_result.smoker_analysis.non_smoker.count
                      = Len(reports.average_charges_by_smoker.non_smoker_charges)
               /\ reports.average_charges_by_smoker.kind = "printed" =>
                      web_result.smoker_analysis.non_smoker
                          = reports.average_charges_by_smoker.non_smoker

(***************************************************************************)
(* Properties of medical_system.py                                         *)
(***************************************************************************)
\* C29: in the result of analyze_medical_records the four age_distribution
\* counts sum to total_patients, for every non-empty list of patients.
C29_AgeCountsSumToTotal ==
    (med_pc = "done" /\ Len(patients) > 0) =>
        /\ med_result.kind = "record"
        /\ med_result.age_distribution["18-30"] + med_result.age_distribution["31-45"]
           + med_result.age_distribution["46-60"] + med_result.age_distribution["60+"]
               = med_result.summary.total_patients

====
